---- MODULE Spec2Model ----
(***************************************************************************)
(* A model of drsh (src/drsh.c), a single-file interactive shell.          *)
(*                                                                         *)
(* Bytes are naturals 0..255 and byte strings are sequences of bytes.  An  *)
(* atom is identified with its byte string.                                *)
(*                                                                         *)
(* Specifications:                                                         *)
(*   SpecRbToCmd  drsh_rb_to_cmd applied to one buffer                     *)
(*   SpecDecode   drsh_read_one fed by blocking reads of a terminal        *)
(*   SpecEdit     one call of drsh_read_line, one command per step         *)
(*   SpecHistory, SpecCompletion   drsh_read_line with the history and    *)
(*                with tab completion                                      *)
(*   Spec         main                                                     *)
(*   SpecDistance, SpecRank, SpecAtoms, SpecEnv, SpecResolve, SpecTokenize *)
(*                a library function called on its own                     *)
(*   SpecCanon    drsh_canonicalize between the lines of the set built-in  *)
(*   SpecCwd      the cd and pwd built-ins and drsh_refresh_cwd            *)
(*   SpecRedisplay  the redisplay at the head of drsh_read_line's loop     *)
(*   SpecDispatch   drsh_process_line on one line, and what it prints      *)
(*                                                                         *)
(* Allocation is taken to succeed: the EC_OOM returns are not modelled.    *)
(***************************************************************************)
EXTENDS Integers, Sequences, FiniteSets, TLC

VARIABLES
    read_buffer,    \* DrshInput.read_buffer: the bytes received, decoded or not
    read_cursor,    \* DrshInput.read_cursor: how many of them are decoded
    cmd,            \* the int *cmd that drsh_rb_to_cmd / drsh_read_one fill in
    len,            \* the size_t drsh_rb_to_cmd returned last
    err,            \* the DrshEC the running function returned last
    dec_pc,         \* position inside drsh_read_one
    inp,            \* the DrshInput fields the line editor works on
    ts,             \* the DrshTermState
    IS_WINDOWS,     \* the build: TRUE for the _WIN32 branches of the source
    outbuf,         \* the line drsh_read_line hands back
    rl_pc,          \* position inside drsh_read_line
    env,            \* the DrshEnvironment: its variables and the cached home
    main_pc,        \* position inside main
    spawn_pc,       \* position inside drsh_spawn_process_and_wait
    script,         \* the text drsh_source_file has still to run
    args,           \* argc and the index of the next argv file
    fs,             \* the history directory and file
    exit_code,      \* what main returned
    lib             \* a library function called on its own: its arguments,
                    \* the table it works on and what it returned

decVars == <<read_buffer, read_cursor, len, dec_pc>>
editVars == <<inp, ts, IS_WINDOWS, outbuf, rl_pc, env>>
mainVars == <<main_pc, spawn_pc, script, args, fs, exit_code>>

vars == <<decVars, cmd, err, editVars, mainVars, lib>>

----------------------------------------------------------------------------
(* Bounds of the model.                                                    *)

\* most bytes the read buffer holds before the terminal stops delivering
MaxRead == 4
\* most bytes one blocking read delivers
MaxChunk == 3
\* most bytes after the ESC in a buffer handed to drsh_rb_to_cmd
MaxEscTail == 3

----------------------------------------------------------------------------
(* Result codes and command codes.                                         *)

EC_OK == "EC_OK"
EC_OOM == "EC_OOM"
EC_IO_ERROR == "EC_IO_ERROR"
EC_VALUE_ERROR == "EC_VALUE_ERROR"
EC_EOF == "EC_EOF"
EC_NOT_FOUND == "EC_NOT_FOUND"
EC_EXIT == "EC_EXIT"

CMD_MOVE_HOME == -1
CMD_MOVE_LEFT == -2
CMD_INTERRUPT == -3
CMD_DELETE_FORWARD_OR_EOF == -4
CMD_MOVE_END == -5
CMD_MOVE_RIGHT == -6
CMD_CTRL_G == -7
CMD_DELETE_BACK == -8
CMD_TAB == -9
CMD_ACCEPT == -10
CMD_KILL_END_OF_LINE == -11
CMD_CLEAR_SCREEN == -12
CMD_ENTER == -13
CMD_MOVE_DOWN == -14
CMD_CTRL_O == -15
CMD_MOVE_UP == -16
CMD_ESC == -27
CMD_DELETE_FORWARD == -128
CMD_SHIFT_TAB == -129

\* the value of an int that no call has written yet
NoCmd == "none"

\* bytes the decoder tells apart
ESC == 27
DEL == 127
LBRACKET == 91
LETTER_O == 79
TILDE == 126
DIGIT_0 == 48
DIGIT_3 == 51
DIGIT_9 == 57

SeqsUpTo(S, n) == UNION {[1..k -> S] : k \in 0..n}

\* drsh_rb_shift followed by a read of what is left
Shifted(s, n) == IF n >= Len(s) THEN <<>> ELSE SubSeq(s, n + 1, Len(s))

----------------------------------------------------------------------------
(* The input decoder.                                                      *)

Decoded(n, c) == [len |-> n, cmd |-> c]

\* the switch(txt[2]) of an ESC [ sequence
drsh_rb_to_cmd_csi(x) ==
    CASE x = 65 -> Decoded(3, CMD_MOVE_UP)
      [] x = 66 -> Decoded(3, CMD_MOVE_DOWN)
      [] x = 67 -> Decoded(3, CMD_MOVE_RIGHT)
      [] x = 68 -> Decoded(3, CMD_MOVE_LEFT)
      [] x = 72 -> Decoded(3, CMD_MOVE_HOME)
      [] x = 70 -> Decoded(3, CMD_MOVE_END)
      [] x = 90 -> Decoded(3, CMD_SHIFT_TAB)
      [] OTHER -> Decoded(0, NoCmd)

\* drsh_rb_to_cmd: the command at the front of rb and the bytes it takes;
\* len 0 when rb holds no whole command
drsh_rb_to_cmd(rb) ==
    LET length == Len(rb) IN
    IF length = 0 THEN Decoded(0, NoCmd)
    ELSE LET c == rb[1] IN
      IF c < 27 THEN Decoded(1, -c)
      ELSE IF c = 127 THEN Decoded(1, CMD_DELETE_BACK)
      ELSE IF c > 27 THEN Decoded(1, c)
      ELSE IF length > 2 /\ rb[2] = LBRACKET THEN
             IF /\ rb[3] >= DIGIT_0 /\ rb[3] <= DIGIT_9 /\ length > 3
                /\ rb[4] = TILDE /\ rb[3] = DIGIT_3
             THEN Decoded(4, CMD_DELETE_FORWARD)
             ELSE drsh_rb_to_cmd_csi(rb[3])
      ELSE IF length > 2 /\ rb[2] = LETTER_O /\ rb[3] = 72
             THEN Decoded(3, CMD_MOVE_HOME)
      ELSE IF length > 2 /\ rb[2] = LETTER_O /\ rb[3] = 70
             THEN Decoded(3, CMD_MOVE_END)
      ELSE Decoded(1, CMD_ESC)


Unread == Shifted(read_buffer, read_cursor)

----------------------------------------------------------------------------
(* The terminal state machine.                                             *)

TS_INIT == "TS_INIT"
TS_RAW == "TS_RAW"
TS_ORIG == "TS_ORIG"
TS_UNKNOWN == "TS_UNKNOWN"

Returned(t, e) == [ts |-> t, err |-> e]

\* drsh_ts_raw; syscall_ok is whether tcsetattr / SetConsoleMode succeed
drsh_ts_raw(t, syscall_ok) ==
    IF t.state = TS_RAW THEN Returned(t, EC_OK)
    ELSE IF /\ ~syscall_ok
            /\ t.in_is_terminal \/ (IS_WINDOWS /\ t.out_is_terminal)
         THEN Returned(t, EC_IO_ERROR)
    ELSE Returned([t EXCEPT !.state = TS_RAW], EC_OK)

drsh_ts_unknown_M(t) == Returned(t, EC_OK)

\* drsh_ts_unknown
drsh_ts_unknown(t) == Returned([t EXCEPT !.state = TS_UNKNOWN], EC_OK)

drsh_ts_orig_M(t, syscall_ok) == Returned(t, EC_OK)

\* drsh_ts_orig; the _WIN32 branch ignores what SetConsoleMode returns
drsh_ts_orig(t, syscall_ok) ==
    IF t.state = TS_ORIG THEN Returned(t, EC_OK)
    ELSE IF ~IS_WINDOWS /\ t.in_is_terminal /\ ~syscall_ok
         THEN Returned(t, EC_IO_ERROR)
    ELSE Returned([t EXCEPT !.state = TS_ORIG], EC_OK)

----------------------------------------------------------------------------
(* The line editor: each operation maps a DrshInput to a DrshInput.        *)

\* memremove of one byte at offset whence, with the count decremented
RemoveAt(s, whence) == SubSeq(s, 1, whence) \o SubSeq(s, whence + 2, Len(s))

\* meminsert of one byte at offset whence, with the count incremented
InsertAt(s, whence, c) ==
    SubSeq(s, 1, whence) \o <<c>> \o SubSeq(s, whence + 1, Len(s))

drsh_inp_move_home(i) ==
    [i EXCEPT !.write_cursor = 0, !.needs_redisplay = TRUE]

drsh_inp_move_end(i) ==
    [i EXCEPT !.write_cursor = Len(i.write_buffer), !.needs_redisplay = TRUE]

drsh_inp_move_left(i) ==
    [i EXCEPT !.write_cursor = IF @ # 0 THEN @ - 1 ELSE @,
              !.needs_redisplay = TRUE]

\* drsh_inp_move_right without its test against write_buffer.count
drsh_inp_move_right_M(i) ==
    [i EXCEPT !.write_cursor = @ + 1, !.needs_redisplay = TRUE]

drsh_inp_move_right(i) ==
    [i EXCEPT !.write_cursor = IF @ < Len(i.write_buffer) THEN @ + 1 ELSE @,
              !.needs_redisplay = TRUE]

drsh_inp_move_up(i) ==
    IF i.hist_cursor = 0 THEN i
    ELSE LET atom == i.hist_buffer[i.hist_cursor] IN
         [i EXCEPT !.hist_cursor = @ - 1,
                   !.needs_redisplay = TRUE,
                   !.write_buffer = atom,
                   !.write_cursor = Len(atom)]

\* drsh_inp_move_down without its clamp to the history length
drsh_inp_move_down_M(i) ==
    [i EXCEPT !.hist_cursor = @ + 1,
              !.needs_redisplay = TRUE,
              !.write_buffer = <<>>,
              !.write_cursor = 0]

drsh_inp_move_down(i) ==
    IF i.hist_cursor + 1 >= Len(i.hist_buffer)
    THEN [i EXCEPT !.hist_cursor = Len(i.hist_buffer),
                   !.needs_redisplay = TRUE,
                   !.write_buffer = <<>>,
                   !.write_cursor = 0]
    ELSE LET atom == i.hist_buffer[i.hist_cursor + 2] IN
         [i EXCEPT !.hist_cursor = @ + 1,
                   !.needs_redisplay = TRUE,
                   !.write_buffer = atom,
                   !.write_cursor = Len(atom)]

drsh_end_tab_completion(i) ==
    [i EXCEPT !.tab_completion = FALSE, !.tab_completions = <<>>]

drsh_inp_del_left(i) ==
    IF i.write_cursor = 0 THEN i
    ELSE IF i.write_cursor = Len(i.write_buffer)
    THEN [i EXCEPT !.write_buffer = SubSeq(@, 1, Len(@) - 1),
                   !.write_cursor = @ - 1,
                   !.needs_redisplay = TRUE]
    ELSE [i EXCEPT !.write_buffer = RemoveAt(@, i.write_cursor - 1),
                   !.write_cursor = @ - 1,
                   !.needs_redisplay = TRUE]

\* drsh_inp_del_right removing the byte before the cursor
drsh_inp_del_right_M(i) ==
    IF i.write_cursor = 0 THEN i
    ELSE [i EXCEPT !.write_buffer = RemoveAt(@, i.write_cursor - 1),
                   !.write_cursor = @ - 1,
                   !.needs_redisplay = TRUE]

drsh_inp_del_right(i) ==
    IF i.write_cursor = Len(i.write_buffer) THEN i
    ELSE IF i.write_cursor = Len(i.write_buffer) - 1
    THEN [i EXCEPT !.write_buffer = SubSeq(@, 1, Len(@) - 1),
                   !.needs_redisplay = TRUE]
    ELSE [i EXCEPT !.write_buffer = RemoveAt(@, i.write_cursor),
                   !.needs_redisplay = TRUE]

\* drsh_inp_kill_end_of_line without its needs_redisplay = 1
drsh_inp_kill_end_of_line_M(i) ==
    IF Len(i.write_buffer) = i.write_cursor THEN i
    ELSE [i EXCEPT !.write_buffer = SubSeq(@, 1, i.write_cursor)]

drsh_inp_kill_end_of_line(i) ==
    IF Len(i.write_buffer) = i.write_cursor THEN i
    ELSE [i EXCEPT !.write_buffer = SubSeq(@, 1, i.write_cursor),
                   !.needs_redisplay = TRUE]

\* drsh_inp_input_one: the DrshInput and the DrshEC it returns
drsh_inp_input_one(i, c) ==
    IF i.write_cursor > Len(i.write_buffer)
    THEN [inp |-> i, err |-> "EC_ASSERTION_ERROR"]
    ELSE [inp |-> [i EXCEPT !.write_buffer = InsertAt(@, i.write_cursor, c),
                            !.write_cursor = @ + 1,
                            !.needs_redisplay = TRUE],
          err |-> EC_OK]

drsh_inp_clear(i) ==
    IF i.write_cursor = 0 /\ Len(i.write_buffer) = 0 THEN i
    ELSE [i EXCEPT !.write_buffer = <<>>,
                   !.write_cursor = 0,
                   !.needs_redisplay = TRUE]

----------------------------------------------------------------------------
(* Tab completion.                                                         *)

SPACE == 32
DOT == 46
SLASH == 47
BACKSLASH == 92

\* c | 0x20
Or20(c) == IF (c \div 32) % 2 = 1 THEN c ELSE c + 32

\* the backward scan of drsh_parse_completable_token from offset p with the
\* separator found so far (-1: none); yields the token's offset and the
\* separator's
RECURSIVE ParseScan(_, _, _, _)
ParseScan(rb, p, slash, backslash_is_sep) ==
    LET q == p - 1
        c == rb[q + 1]
        escaped == q # 0 /\ rb[q] = BACKSLASH
        slash2 == IF slash # -1 THEN slash
                  ELSE IF c = SLASH THEN q
                  ELSE IF backslash_is_sep /\ c = BACKSLASH /\ ~escaped THEN q
                  ELSE slash
    IN  IF c = SPACE /\ ~escaped THEN [p |-> q + 1, slash |-> slash]
        ELSE IF c = SPACE THEN
             IF q # 0 THEN ParseScan(rb, q, slash, backslash_is_sep)
             ELSE [p |-> q, slash |-> slash]
        ELSE IF q # 0 THEN ParseScan(rb, q, slash2, backslash_is_sep)
        ELSE [p |-> q, slash |-> slash2]

\* drsh_parse_completable_token: the token left of the cursor, split at its
\* last path separator
drsh_parse_completable_token(rb, backslash_is_sep) ==
    IF Len(rb) = 0 THEN [tok |-> <<>>, dirname |-> <<>>, basename |-> <<>>]
    ELSE LET r == ParseScan(rb, Len(rb), -1, backslash_is_sep)
             tok == Shifted(rb, r.p)
         IN  IF r.slash # -1
             THEN [tok |-> tok,
                   dirname |-> SubSeq(rb, r.p + 1, r.slash + 1),
                   basename |-> Shifted(rb, r.slash + 1)]
             ELSE [tok |-> tok, dirname |-> <<>>, basename |-> tok]

\* the three loops of byte_expansion_distance; icase selects the comparison
\* of byte_expansion_distance_icase
RECURSIVE ExpansionLoop(_, _, _, _, _)
ExpansionLoop(h, n, difference, phase, icase) ==
    LET same == IF Len(h) = 0 \/ Len(n) = 0 THEN FALSE
                ELSE IF icase THEN Or20(h[1]) = Or20(n[1])
                ELSE h[1] = n[1]
    IN  CASE phase = "top" ->
               IF Len(n) > Len(h) THEN -1
               ELSE IF Len(n) = 0 THEN difference + Len(h)
               ELSE ExpansionLoop(h, n, difference, "strip", icase)
          [] phase = "strip" ->
               IF Len(n) = 0 THEN difference + Len(h)
               ELSE IF Len(h) = 0 THEN -1
               ELSE IF same
                    THEN ExpansionLoop(Tail(h), Tail(n), difference, "strip", icase)
               ELSE ExpansionLoop(h, n, difference, "skip", icase)
          [] phase = "skip" ->
               IF Len(h) = 0 THEN -1
               ELSE IF same THEN ExpansionLoop(h, n, difference, "top", icase)
               ELSE ExpansionLoop(Tail(h), n, difference + 1, "skip", icase)

\* the distance counted from 1
byte_expansion_distance_M(haystack, needle) ==
    ExpansionLoop(haystack, needle, 1, "top", FALSE)

byte_expansion_distance(haystack, needle) ==
    ExpansionLoop(haystack, needle, 0, "top", FALSE)

byte_expansion_distance_icase(haystack, needle) ==
    ExpansionLoop(haystack, needle, 0, "top", TRUE)

\* a < b for two size_t values, -1 standing for (size_t)-1
SizeLess(a, b) == a # b /\ (b = -1 \/ (a # -1 /\ a < b))

\* strcmp of two atoms' texts: negative, zero or positive
RECURSIVE strcmp(_, _)
strcmp(a, b) ==
    IF Len(a) = 0 /\ Len(b) = 0 THEN 0
    ELSE IF Len(a) = 0 THEN -1
    ELSE IF Len(b) = 0 THEN 1
    ELSE IF a[1] # b[1] THEN a[1] - b[1]
    ELSE strcmp(Tail(a), Tail(b))

\* txt[0] of an atom: the terminating NUL when the atom is empty
FirstByte(a) == IF Len(a) = 0 THEN 0 ELSE a[1]

\* the comparison without the dotfile test
word_cmp_M(l, r) ==
    IF l.prefix_match > r.prefix_match THEN -1
    ELSE IF l.prefix_match < r.prefix_match THEN 1
    ELSE IF l.iprefix_match > r.iprefix_match THEN -1
    ELSE IF l.iprefix_match < r.iprefix_match THEN 1
    ELSE IF SizeLess(l.distance, r.distance) THEN -1
    ELSE IF SizeLess(r.distance, l.distance) THEN 1
    ELSE IF SizeLess(l.idistance, r.idistance) THEN -1
    ELSE IF SizeLess(r.idistance, l.idistance) THEN 1
    ELSE strcmp(l.a, r.a)

word_cmp(l, r) ==
    IF l.prefix_match > r.prefix_match THEN -1
    ELSE IF l.prefix_match < r.prefix_match THEN 1
    ELSE IF l.iprefix_match > r.iprefix_match THEN -1
    ELSE IF l.iprefix_match < r.iprefix_match THEN 1
    ELSE IF SizeLess(l.distance, r.distance) THEN -1
    ELSE IF SizeLess(r.distance, l.distance) THEN 1
    ELSE IF SizeLess(l.idistance, r.idistance) THEN -1
    ELSE IF SizeLess(r.idistance, l.idistance) THEN 1
    ELSE IF FirstByte(l.a) # DOT /\ FirstByte(r.a) = DOT THEN -1
    ELSE IF FirstByte(l.a) = DOT /\ FirstByte(r.a) # DOT THEN 1
    ELSE strcmp(l.a, r.a)

\* the sort that puts the greater word first
RECURSIVE qsort_M(_)
qsort_M(words) ==
    IF Len(words) <= 1 THEN words
    ELSE LET w == words[1]
             rest == qsort_M(Tail(words))
             before == SelectSeq(rest, LAMBDA x : word_cmp(x, w) > 0)
             after == SelectSeq(rest, LAMBDA x : word_cmp(x, w) <= 0)
         IN  before \o <<w>> \o after

\* qsort(words, word_cmp): words that compare equal are the same word
RECURSIVE qsort(_)
qsort(words) ==
    IF Len(words) <= 1 THEN words
    ELSE LET w == words[1]
             rest == qsort(Tail(words))
             before == SelectSeq(rest, LAMBDA x : word_cmp(x, w) < 0)
             after == SelectSeq(rest, LAMBDA x : word_cmp(x, w) >= 0)
         IN  before \o <<w>> \o after

\* a null pointer, told from every byte string
NULL == <<-1>>

\* drsh_path_is_abs
drsh_path_is_abs(path, windows_style) ==
    \/ /\ windows_style
       /\ \/ /\ Len(path) > 2
             /\ path[2] = 58
             /\ path[3] = SLASH \/ path[3] = BACKSLASH
             /\ Or20(path[1]) >= 97 /\ Or20(path[1]) <= 122
          \/ FirstByte(path) = BACKSLASH
    \/ FirstByte(path) = SLASH

\* the directory drsh_readdir opens
ReaddirPath(pwd, dirname) ==
    IF Len(dirname) # 0 /\ drsh_path_is_abs(dirname, IS_WINDOWS) THEN dirname
    ELSE IF Len(dirname) # 0
         THEN IF pwd # NULL THEN pwd \o <<SLASH>> \o dirname ELSE dirname
    ELSE IF pwd # NULL THEN pwd
    ELSE <<DOT>>

\* the working directory of the model: /w
WorkDir == <<SLASH, 119>>

\* the file system the completion sees: /w holds the files .a and aa, the
\* directory a and a link Aa to a directory; /w/a holds the file a.  Every
\* listing starts with . and ..
FsListing(path) ==
    LET dots == <<[name |-> <<DOT>>, kind |-> "DT_DIR"],
                  [name |-> <<DOT, DOT>>, kind |-> "DT_DIR"]>>
    IN  CASE path \in {WorkDir, <<DOT>>} ->
               dots \o <<[name |-> <<DOT, 97>>, kind |-> "DT_REG"],
                         [name |-> <<97>>, kind |-> "DT_DIR"],
                         [name |-> <<97, 97>>, kind |-> "DT_REG"],
                         [name |-> <<65, 97>>, kind |-> "DT_LNK_DIR"]>>
          [] path = WorkDir \o <<SLASH, 97, SLASH>> ->
               dots \o <<[name |-> <<97>>, kind |-> "DT_REG"]>>
          [] OTHER -> <<>>

\* the atoms drsh_readdir appends for one directory entry: one or none
ReaddirEntry(e, dirs_only) ==
    LET is_dir == e.kind \in {"DT_DIR", "DT_LNK_DIR"} IN
    IF IS_WINDOWS
    THEN IF Len(e.name) = 1 /\ e.name[1] = DOT THEN <<>>
         ELSE IF Len(e.name) = 2 /\ e.name[1] = DOT /\ e.name[2] # 0 THEN <<>>
         ELSE IF is_dir THEN <<e.name \o <<BACKSLASH>>>>
         ELSE IF dirs_only THEN <<>>
         ELSE <<e.name>>
    ELSE IF Len(e.name) = 1 /\ e.name[1] = DOT THEN <<>>
         ELSE IF Len(e.name) = 2 /\ e.name[1] = DOT /\ e.name[2] = DOT THEN <<>>
         ELSE IF e.kind = "DT_DIR" THEN <<e.name \o <<SLASH>>>>
         ELSE IF e.kind = "DT_LNK_BROKEN" THEN <<>>
         ELSE IF e.kind = "DT_LNK_DIR" THEN <<e.name \o <<SLASH>>>>
         ELSE IF dirs_only THEN <<>>
         ELSE <<e.name>>

RECURSIVE ReaddirLoop(_, _)
ReaddirLoop(entries, dirs_only) ==
    IF Len(entries) = 0 THEN <<>>
    ELSE ReaddirEntry(entries[1], dirs_only)
           \o ReaddirLoop(Tail(entries), dirs_only)

\* drsh_readdir: the atoms appended to the candidate list
drsh_readdir(pwd, dirname, dirs_only) ==
    ReaddirLoop(FsListing(ReaddirPath(pwd, dirname)), dirs_only)

\* DrshWord w = {a, 0, 0, 0, 0}
Word(atom) ==
    [a |-> atom, distance |-> 0, idistance |-> 0,
     prefix_match |-> 0, iprefix_match |-> 0]

\* the ranking fields drsh_tab_completion computes for one candidate
ScoreWord(w, basename) ==
    LET fits == Len(basename) <= Len(w.a) IN
    [a |-> w.a,
     distance |-> IF Len(basename) # 0
                  THEN byte_expansion_distance(w.a, basename) ELSE 0,
     idistance |-> IF Len(basename) # 0
                   THEN byte_expansion_distance_icase(w.a, basename) ELSE 0,
     prefix_match |->
        IF fits /\ SubSeq(w.a, 1, Len(basename)) = basename THEN 1 ELSE 0,
     iprefix_match |->
        IF fits /\ \A j \in 1..Len(basename) : Or20(basename[j]) = Or20(w.a[j])
        THEN 1 ELSE w.iprefix_match]

\* the tail drop that stops after one candidate
DropTail_M(words) ==
    IF Len(words) # 0 /\ words[Len(words)].idistance = -1
    THEN SubSeq(words, 1, Len(words) - 1)
    ELSE words

\* the loop that drops the tail candidates whose idistance is (size_t)-1
RECURSIVE DropTail(_)
DropTail(words) ==
    IF Len(words) # 0 /\ words[Len(words)].idistance = -1
    THEN DropTail(SubSeq(words, 1, Len(words) - 1))
    ELSE words

RECURSIVE DelLeftTimes(_, _)
DelLeftTimes(i, n) ==
    IF n = 0 THEN i ELSE DelLeftTimes(drsh_inp_del_left(i), n - 1)

RECURSIVE InputBytes(_, _)
InputBytes(i, bytes) ==
    IF Len(bytes) = 0 THEN i
    ELSE InputBytes(drsh_inp_input_one(i, bytes[1]).inp, Tail(bytes))

\* the ranking loop of drsh_tab_completion over the candidates
RankWords(listed, basename) ==
    [k \in 1..Len(listed) |-> ScoreWord(Word(listed[k]), basename)]

\* ranking, qsort and tail drop of the candidates listed
RankedList(listed, basename) == DropTail(qsort(RankWords(listed, basename)))

\* the candidate list of a token: the typed basename and the directory's
\* entries, ranked, sorted and trimmed
CompletionList(t, pwd, dirs_only) ==
    RankedList(<<t.basename>> \o drsh_readdir(pwd, t.dirname, dirs_only),
               t.basename)

\* the first TAB of a run: build, rank and trim the candidate list
StartCompletion(i, pwd) ==
    LET rb == SubSeq(i.write_buffer, 1, i.write_cursor) IN
    [i EXCEPT !.tab_completions =
                  CompletionList(
                      drsh_parse_completable_token(rb, IS_WINDOWS), pwd,
                      Len(rb) > 2 /\ SubSeq(rb, 1, 3) = <<99, 100, SPACE>>),
              !.tab_completion_cursor = 0,
              !.tab_completion = TRUE]

\* the step with a candidate cursor that stops at the last candidate
CycleCompletion_M(j) ==
    LET atoms == j.tab_completions
        cursor == IF j.tab_completion_cursor + 1 >= Len(atoms)
                  THEN j.tab_completion_cursor
                  ELSE j.tab_completion_cursor + 1
        a == atoms[cursor + 1].a
        prev == atoms[(IF cursor # 0 THEN cursor - 1 ELSE Len(atoms) - 1) + 1].a
    IN  InputBytes(DelLeftTimes([j EXCEPT !.tab_completion_cursor = cursor],
                                Len(prev)), a)

\* the step of drsh_tab_completion to the next candidate, which replaces
\* the previous one left of the cursor
CycleCompletion(j) ==
    LET atoms == j.tab_completions
        cursor == IF j.tab_completion_cursor + 1 >= Len(atoms)
                  THEN 0 ELSE j.tab_completion_cursor + 1
        a == atoms[cursor + 1].a
        prev == atoms[(IF cursor # 0 THEN cursor - 1 ELSE Len(atoms) - 1) + 1].a
    IN  InputBytes(DelLeftTimes([j EXCEPT !.tab_completion_cursor = cursor],
                                Len(prev)), a)

drsh_tab_completion(i, pwd) ==
    CycleCompletion(IF ~i.tab_completion THEN StartCompletion(i, pwd) ELSE i)

\* the cancel that deletes as many bytes as candidate 0 has
drsh_tab_completion_cancel_M(i) ==
    IF ~i.tab_completion THEN i
    ELSE LET atoms == i.tab_completions
             a == atoms[1].a
         IN  drsh_end_tab_completion(
                 InputBytes(DelLeftTimes(i, Len(a)), atoms[1].a))

drsh_tab_completion_cancel(i) ==
    IF ~i.tab_completion THEN i
    ELSE LET atoms == i.tab_completions
             a == atoms[i.tab_completion_cursor + 1].a
         IN  drsh_end_tab_completion(
                 InputBytes(DelLeftTimes(i, Len(a)), atoms[1].a))

\* drsh_tab_completion_prev that stays at candidate 0 instead of wrapping to
\* the last candidate
drsh_tab_completion_prev_M0(i) ==
    IF ~i.tab_completion THEN i
    ELSE LET atoms == i.tab_completions
             cursor == IF i.tab_completion_cursor = 0
                       THEN 0 ELSE i.tab_completion_cursor - 1
             a == atoms[cursor + 1].a
             prev == atoms[(IF cursor < Len(atoms) - 1 THEN cursor + 1 ELSE 0) + 1].a
         IN  InputBytes(DelLeftTimes([i EXCEPT !.tab_completion_cursor = cursor],
                                     Len(prev)), a)

\* drsh_tab_completion_prev deleting as many bytes as the candidate it goes
\* to has
drsh_tab_completion_prev_M(i) ==
    IF ~i.tab_completion THEN i
    ELSE LET atoms == i.tab_completions
             cursor == IF i.tab_completion_cursor = 0
                          \/ i.tab_completion_cursor - 1 >= Len(atoms)
                       THEN Len(atoms) - 1 ELSE i.tab_completion_cursor - 1
             a == atoms[cursor + 1].a
         IN  InputBytes(DelLeftTimes([i EXCEPT !.tab_completion_cursor = cursor],
                                     Len(a)), a)

\* tab_completion_cursor-- wraps a size_t 0 to SIZE_MAX, which is >= length
drsh_tab_completion_prev(i) ==
    IF ~i.tab_completion THEN i
    ELSE LET atoms == i.tab_completions
             cursor == IF i.tab_completion_cursor = 0
                          \/ i.tab_completion_cursor - 1 >= Len(atoms)
                       THEN Len(atoms) - 1 ELSE i.tab_completion_cursor - 1
             a == atoms[cursor + 1].a
             prev == atoms[(IF cursor < Len(atoms) - 1 THEN cursor + 1 ELSE 0) + 1].a
         IN  InputBytes(DelLeftTimes([i EXCEPT !.tab_completion_cursor = cursor],
                                     Len(prev)), a)

----------------------------------------------------------------------------
(* The state of the parts a specification leaves alone.                    *)

\* DrshInput input = {0}
NewInput ==
    [write_buffer |-> <<>>, write_cursor |-> 0,
     needs_redisplay |-> FALSE, needs_clear_screen |-> FALSE,
     hist_start |-> 0, hist_buffer |-> <<>>, hist_cursor |-> 0,
     tab_completion |-> FALSE, tab_completions |-> <<>>,
     tab_completion_cursor |-> 0]

\* DrshTermState ts = {0}
NewTermState ==
    [state |-> TS_INIT, in_is_terminal |-> FALSE, out_is_terminal |-> FALSE]

\* the spellings of at->special[ATOM_PWD], [ATOM_pwd] and [ATOM_HOME]
ATOM_PWD == <<80, 87, 68>>
ATOM_pwd == <<112, 119, 100>>
ATOM_HOME == <<72, 79, 77, 69>>

\* DrshAtom.iatom: the atom of the bytes each or-ed with 0x20
iatom(a) == [j \in 1..Len(a) |-> Or20(a[j])]

\* the key a variable is found under: env->case_insensitive is IS_WINDOWS
EnvKey(a) == IF IS_WINDOWS THEN iatom(a) ELSE a

\* drsh_env_get_env
drsh_env_get_env(e, key) ==
    LET hits == {a \in DOMAIN e.vars : EnvKey(a) = EnvKey(key)} IN
    IF hits = {} THEN NULL ELSE e.vars[CHOOSE a \in hits : TRUE]

\* drsh_env_set_env: a variable found under the key takes the new value, and
\* the new spelling of the key where keys are case-insensitive
drsh_env_set_env(e, key, value) ==
    LET hits == {a \in DOMAIN e.vars : EnvKey(a) = EnvKey(key)} IN
    [e EXCEPT !.vars = (key :> value) @@
                       [a \in DOMAIN e.vars \ hits |-> e.vars[a]]]

\* the environment after drsh_env_init and drsh_refresh_cwd: HOME is /h and
\* the working directory /w
NewEnv ==
    [vars |-> (ATOM_PWD :> WorkDir) @@ (ATOM_HOME :> <<SLASH, 104>>),
     home |-> <<SLASH, 104>>]

\* no library function is called on its own
NoCall == [fn |-> "none"]

\* no file is being sourced
NoScript == [sourcing |-> FALSE, txt |-> <<>>]

\* no file system: the specifications of the decoder and of the editor read
\* none but the directory listings
NoFiles == [cwd |-> WorkDir, hist_dir |-> FALSE, hist_exists |-> FALSE,
            hist_file |-> <<>>, appended |-> <<>>]

MainAtRest ==
    /\ main_pc = "idle"
    /\ spawn_pc = "none"
    /\ script = NoScript
    /\ args = [argc |-> 1, i |-> 1]
    /\ fs = NoFiles
    /\ exit_code = -1

MainIdle == MainAtRest /\ lib = NoCall

EditAtRest ==
    /\ inp = NewInput
    /\ ts = NewTermState
    /\ IS_WINDOWS = FALSE
    /\ outbuf = <<>>
    /\ rl_pc = "idle"
    /\ env = NewEnv

EditIdle == EditAtRest /\ MainIdle

DecodeIdle ==
    /\ read_buffer = <<>>
    /\ read_cursor = 0
    /\ len = 0
    /\ dec_pc = "idle"

\* the program is not running: a library function is called on its own
NoProgram ==
    /\ DecodeIdle
    /\ cmd = NoCmd
    /\ err = EC_OK
    /\ EditAtRest
    /\ MainAtRest

\* what a call of a library function leaves alone
notLib == <<decVars, cmd, err, editVars, mainVars>>

----------------------------------------------------------------------------
(* SpecRbToCmd: drsh_rb_to_cmd applied once to a buffer drawn at Init.     *)

\* the bytes that may follow an ESC in the buffers tried
EscTailBytes == {ESC, LBRACKET, LETTER_O, 65, 66, 67, 68, 72, 70, 90,
                 DIGIT_3, 53, TILDE, 120}

RbInputs ==
    {<<b>> : b \in 0..255}
      \cup {<<b, 65>> : b \in 0..255}
      \cup {<<ESC>> \o t : t \in SeqsUpTo(EscTailBytes, MaxEscTail)}

InitRbToCmd ==
    /\ read_buffer \in RbInputs
    /\ read_cursor = 0
    /\ cmd = NoCmd
    /\ len = 0
    /\ err = EC_OK
    /\ dec_pc = "apply"
    /\ EditIdle

\* size_t len = drsh_rb_to_cmd(&rb, cmd)
ApplyRbToCmd ==
    /\ dec_pc = "apply"
    /\ len' = drsh_rb_to_cmd(Unread).len
    /\ cmd' = drsh_rb_to_cmd(Unread).cmd
    /\ dec_pc' = "applied"
    /\ UNCHANGED <<read_buffer, read_cursor, err, editVars, mainVars, lib>>

NextRbToCmd == ApplyRbToCmd

SpecRbToCmd == InitRbToCmd /\ [][NextRbToCmd]_vars

----------------------------------------------------------------------------
(* SpecDecode: drsh_read_one, called in a loop by drsh_read_line, fed by   *)
(* blocking reads that deliver any non-empty chunk of bytes.               *)

\* the bytes the terminal delivers: CTRL-D, ESC, '[', 'A', '3', '~', 'x'
DecBytes == {4, ESC, LBRACKET, 65, DIGIT_3, TILDE, 120}

Chunks == SeqsUpTo(DecBytes, MaxChunk) \ {<<>>}

InitDecode ==
    /\ read_buffer = <<>>
    /\ read_cursor = 0
    /\ cmd = NoCmd
    /\ len = 0
    /\ err = EC_OK
    /\ dec_pc = "top"
    /\ EditIdle

\* the head of drsh_read_one's loop: decode from what is already buffered
drsh_read_one_buffered ==
    /\ dec_pc = "top"
    /\ IF read_cursor # 0 /\ read_cursor = Len(read_buffer)
       THEN /\ read_buffer' = <<>>
            /\ read_cursor' = 0
            /\ dec_pc' = "read"
            /\ UNCHANGED <<cmd, len, err>>
       ELSE IF read_cursor # 0 /\ drsh_rb_to_cmd(Unread).len # 0
       THEN /\ len' = drsh_rb_to_cmd(Unread).len
            /\ cmd' = drsh_rb_to_cmd(Unread).cmd
            /\ read_cursor' = read_cursor + len'
            /\ err' = EC_OK
            /\ dec_pc' = "ret"
            /\ UNCHANGED read_buffer
       ELSE /\ dec_pc' = "read"
            /\ len' = IF read_cursor # 0 THEN 0 ELSE len
            /\ UNCHANGED <<read_buffer, read_cursor, cmd, err>>

\* the blocking read returns nread > 0 bytes, which are decoded at once
drsh_read_one_read ==
    /\ dec_pc = "read"
    /\ \E chunk \in Chunks :
         /\ Len(read_buffer) + Len(chunk) <= MaxRead
         /\ read_buffer' = read_buffer \o chunk
         /\ LET d == drsh_rb_to_cmd(Shifted(read_buffer', read_cursor)) IN
              /\ len' = d.len
              /\ read_cursor' = read_cursor + d.len
              /\ IF d.len # 0
                 THEN cmd' = d.cmd /\ err' = EC_OK /\ dec_pc' = "ret"
                 ELSE UNCHANGED <<cmd, err>> /\ dec_pc' = "top"

\* the blocking read returns 0 (end of input) or fails other than by EINTR
drsh_read_one_io_error ==
    /\ dec_pc = "read"
    /\ err' = EC_IO_ERROR
    /\ dec_pc' = "ret"
    /\ UNCHANGED <<read_buffer, read_cursor, cmd, len>>

\* the blocking read is interrupted by a signal (EINTR): continue
drsh_read_one_eintr ==
    /\ dec_pc = "read"
    /\ dec_pc' = "top"
    /\ UNCHANGED <<read_buffer, read_cursor, cmd, len, err>>

\* drsh_read_line takes the command and calls drsh_read_one again
drsh_read_line_next_cmd ==
    /\ dec_pc = "ret"
    /\ err = EC_OK
    /\ dec_pc' = "top"
    /\ UNCHANGED <<read_buffer, read_cursor, cmd, len, err>>

NextDecode ==
    \/ drsh_read_one_buffered /\ UNCHANGED <<editVars, mainVars, lib>>
    \/ drsh_read_one_read /\ UNCHANGED <<editVars, mainVars, lib>>
    \/ drsh_read_one_io_error /\ UNCHANGED <<editVars, mainVars, lib>>
    \/ drsh_read_one_eintr /\ UNCHANGED <<editVars, mainVars, lib>>
    \/ drsh_read_line_next_cmd /\ UNCHANGED <<editVars, mainVars, lib>>

SpecDecode == InitDecode /\ [][NextDecode]_vars

----------------------------------------------------------------------------
(* SpecEdit: calls of drsh_read_line.  drsh_read_one is taken to yield any *)
(* command; each step is one turn of the loop, from the command read to    *)
(* the redisplay that precedes the next read.                              *)

\* most bytes the line being edited grows to
MaxLine == 3
\* most entries the history holds
MaxHist == 2

\* the literal byte the user types: 'a'
EditBytes == {97}

\* the commands drsh_read_one yields; CMD_CTRL_G stands for the commands
\* drsh_read_line ignores
EditCmds ==
    {CMD_DELETE_BACK, CMD_DELETE_FORWARD_OR_EOF, CMD_DELETE_FORWARD,
     CMD_MOVE_RIGHT, CMD_MOVE_LEFT, CMD_MOVE_UP, CMD_MOVE_DOWN,
     CMD_MOVE_HOME, CMD_MOVE_END, CMD_INTERRUPT, CMD_TAB, CMD_SHIFT_TAB,
     CMD_KILL_END_OF_LINE, CMD_CLEAR_SCREEN, CMD_ACCEPT, CMD_ENTER,
     CMD_CTRL_G, CMD_ESC} \cup EditBytes

\* the lines of the history file: "cd " and "a"
HistLines == {<<99, 100, SPACE>>, <<97>>}

drsh_hist_add(i, atom) ==
    IF Len(atom) = 0 THEN i
    ELSE IF Len(i.hist_buffer) # 0 /\ i.hist_buffer[Len(i.hist_buffer)] = atom
    THEN [i EXCEPT !.hist_cursor = Len(i.hist_buffer)]
    ELSE [i EXCEPT !.hist_buffer = Append(@, atom),
                   !.hist_cursor = Len(i.hist_buffer) + 1]

\* the redisplay at the head of drsh_read_line's loop
Redisplay(i, t) ==
    IF i.needs_redisplay /\ t.in_is_terminal /\ t.out_is_terminal
    THEN [i EXCEPT !.needs_clear_screen = FALSE, !.needs_redisplay = FALSE]
    ELSE i

Continue(i) == [inp |-> i, returns |-> FALSE, err |-> EC_OK]
Return(i, e) == [inp |-> i, returns |-> TRUE, err |-> e]

\* the body of drsh_read_line's loop after drsh_read_one yielded c
drsh_read_line_switch(i0, c) ==
    LET i == IF c # CMD_TAB /\ c # CMD_SHIFT_TAB /\ c # CMD_ESC
             THEN drsh_end_tab_completion(i0) ELSE i0
    IN  IF c >= 0
        THEN LET r == drsh_inp_input_one(i, c % 256) IN
             IF r.err # EC_OK THEN Return(r.inp, r.err) ELSE Continue(r.inp)
        ELSE CASE c = CMD_DELETE_BACK -> Continue(drsh_inp_del_left(i))
               [] c = CMD_DELETE_FORWARD_OR_EOF ->
                    IF Len(i.write_buffer) = 0 THEN Return(i, EC_EOF)
                    ELSE Continue(drsh_inp_del_right(i))
               [] c = CMD_DELETE_FORWARD -> Continue(drsh_inp_del_right(i))
               [] c = CMD_MOVE_RIGHT -> Continue(drsh_inp_move_right(i))
               [] c = CMD_MOVE_LEFT -> Continue(drsh_inp_move_left(i))
               [] c = CMD_MOVE_UP -> Continue(drsh_inp_move_up(i))
               [] c = CMD_MOVE_DOWN -> Continue(drsh_inp_move_down(i))
               [] c = CMD_MOVE_HOME -> Continue(drsh_inp_move_home(i))
               [] c = CMD_MOVE_END -> Continue(drsh_inp_move_end(i))
               [] c = CMD_INTERRUPT -> Continue(drsh_inp_clear(i))
               [] c = CMD_TAB ->
                    Continue(drsh_tab_completion(
                                 i, drsh_env_get_env(env, ATOM_PWD)))
               [] c = CMD_SHIFT_TAB -> Continue(drsh_tab_completion_prev(i))
               [] c = CMD_KILL_END_OF_LINE ->
                    Continue(drsh_inp_kill_end_of_line(i))
               [] c = CMD_CLEAR_SCREEN ->
                    Continue([i EXCEPT !.needs_clear_screen = TRUE,
                                       !.needs_redisplay = TRUE])
               [] c \in {CMD_ACCEPT, CMD_ENTER} -> Return(i, EC_OK)
               [] c = CMD_ESC ->
                    Continue(IF i.tab_completion
                             THEN drsh_tab_completion_cancel(i) ELSE i)
               [] OTHER -> Continue(i)

\* the histories the history file loads to
RECURSIVE LoadHistory(_, _)
LoadHistory(i, lines) ==
    IF Len(lines) = 0 THEN [i EXCEPT !.hist_start = i.hist_cursor]
    ELSE LoadHistory(drsh_hist_add(i, lines[1]), Tail(lines))

\* the histories drsh_read_line is first called with in SpecEdit: none, and
\* the lines "cd " and "a"
EditHistories == {<<>>, <<<<99, 100, SPACE>>, <<97>>>>}

\* the state main first calls drsh_read_line in, the history file holding
\* one of the given sequences of lines
InitReadLine(histories) ==
    /\ DecodeIdle
    /\ cmd = NoCmd
    /\ err = EC_OK
    /\ \E lines \in histories :
         inp = LoadHistory(NewInput, lines)
    /\ \E term \in BOOLEAN :
         ts = [state |-> TS_INIT, in_is_terminal |-> term,
               out_is_terminal |-> term]
    /\ IS_WINDOWS \in BOOLEAN
    /\ outbuf = <<>>
    /\ rl_pc = "enter"
    /\ env = NewEnv
    /\ MainIdle

InitEdit == InitReadLine(EditHistories)

\* drsh_read_line up to its first drsh_read_one
drsh_read_line_enter ==
    /\ rl_pc = "enter"
    /\ \E syscall_ok \in BOOLEAN :
         LET r == drsh_ts_raw(ts, syscall_ok)
             i == [inp EXCEPT !.write_buffer = <<>>,
                              !.needs_redisplay = TRUE,
                              !.write_cursor = 0]
         IN  /\ ts' = r.ts
             /\ err' = r.err
             /\ IF r.err # EC_OK
                THEN inp' = i /\ rl_pc' = "returned"
                ELSE inp' = Redisplay(i, r.ts) /\ rl_pc' = "read"
    /\ UNCHANGED <<decVars, cmd, IS_WINDOWS, outbuf, env, mainVars, lib>>

\* drsh_read_one yields the command c and the loop body handles it; the
\* local cmd is dead once the switch is left
drsh_read_line_command(c) ==
    /\ rl_pc = "read"
    /\ LET r == drsh_read_line_switch(inp, c) IN
         /\ Len(r.inp.write_buffer) <= MaxLine
         /\ err' = r.err
         /\ IF r.returns
            THEN /\ inp' = r.inp
                 /\ rl_pc' = "returned"
                 /\ outbuf' = IF r.err = EC_OK THEN r.inp.write_buffer
                              ELSE outbuf
            ELSE /\ inp' = Redisplay(r.inp, ts)
                 /\ rl_pc' = "read"
                 /\ UNCHANGED outbuf
    /\ UNCHANGED <<decVars, cmd, ts, IS_WINDOWS, env, mainVars, lib>>

\* drsh_read_one fails: the read returned 0 bytes or an error
drsh_read_line_io_error ==
    /\ rl_pc = "read"
    /\ err' = EC_IO_ERROR
    /\ rl_pc' = "returned"
    /\ UNCHANGED <<decVars, cmd, inp, ts, IS_WINDOWS, outbuf, env, mainVars, lib>>

\* main's loop between two calls: the accepted line goes to the history and
\* is processed, which leaves the terminal as it is or in TS_UNKNOWN; the
\* local input_line goes out of scope
main_loop_again ==
    /\ rl_pc = "returned"
    /\ err = EC_OK
    /\ inp' = IF ts.in_is_terminal THEN drsh_hist_add(inp, outbuf) ELSE inp
    /\ Len(inp'.hist_buffer) <= MaxHist
    /\ \E spawned \in BOOLEAN :
         ts' = IF spawned THEN drsh_ts_unknown(ts).ts ELSE ts
    /\ rl_pc' = "enter"
    /\ outbuf' = <<>>
    /\ UNCHANGED <<decVars, cmd, err, IS_WINDOWS, env, mainVars, lib>>

NextEdit ==
    \/ drsh_read_line_enter
    \/ \E c \in EditCmds : drsh_read_line_command(c)
    \/ drsh_read_line_io_error

SpecEdit == InitEdit /\ [][NextEdit]_vars

----------------------------------------------------------------------------
(* SpecHistory: main's loop of drsh_read_line calls, each accepted line    *)
(* going to the history, with the keys that type, navigate and accept.     *)

HistoryCmds ==
    {CMD_MOVE_UP, CMD_MOVE_DOWN, CMD_DELETE_BACK, CMD_INTERRUPT,
     CMD_DELETE_FORWARD_OR_EOF, CMD_ACCEPT} \cup EditBytes

NextHistory ==
    \/ drsh_read_line_enter
    \/ \E c \in HistoryCmds : drsh_read_line_command(c)
    \/ drsh_read_line_io_error
    \/ main_loop_again

InitHistory == InitReadLine(SeqsUpTo(HistLines, MaxHist))

SpecHistory == InitHistory /\ [][NextHistory]_vars

----------------------------------------------------------------------------
(* SpecCompletion: one call of drsh_read_line with the keys that type a    *)
(* line, move in it and drive tab completion.                              *)

\* the bytes typed: 'a', 'A', '/' and ' '
CompletionBytes == {97, 65, SLASH, SPACE}

CompletionCmds ==
    {CMD_TAB, CMD_SHIFT_TAB, CMD_ESC, CMD_MOVE_LEFT, CMD_DELETE_BACK}
        \cup CompletionBytes

NextCompletion ==
    \/ drsh_read_line_enter
    \/ \E c \in CompletionCmds : drsh_read_line_command(c)
    \/ drsh_read_line_io_error

InitCompletion == InitReadLine({<<>>})

SpecCompletion == InitCompletion /\ [][NextCompletion]_vars

----------------------------------------------------------------------------
(* main: the files it sources, the interactive loop and the history file.  *)

\* most files named on the command line
MaxArgvFiles == 1

LF == 10
CR == 13

\* drsh_rb_to_line: the length of the first line of txt, its terminator
\* included, or 0 where txt holds no terminator
drsh_rb_to_line(txt) ==
    LET ends == {k \in 1..Len(txt) : txt[k] \in {0, LF, CR}} IN
    IF ends = {} THEN 0
    ELSE CHOOSE k \in ends : \A m \in ends : k <= m

\* the bytes drsh_tokenize_line skips between tokens and ends a token at
TokenBreaks == {0, SPACE, CR, 9, LF, 12}

\* the two quote characters
Quotes == {34, 39}

\* the loop of drsh_tokenize_line from the byte at offset k: tok_begin is the
\* offset of the open token plus one (0: none), quoted the open quote (0:
\* none)
RECURSIVE TokenizeLoop(_, _, _, _, _, _)
TokenizeLoop(txt, k, tok_begin, quoted, backslash, toks) ==
    IF k >= Len(txt)
    THEN IF tok_begin # 0
         THEN Append(toks, SubSeq(txt, tok_begin, Len(txt)))
         ELSE toks
    ELSE LET c == txt[k + 1] IN
         IF tok_begin = 0
         THEN IF c \in TokenBreaks
              THEN TokenizeLoop(txt, k + 1, 0, quoted, backslash, toks)
              ELSE TokenizeLoop(txt, k + 1, k + 1,
                                IF c \in Quotes THEN c ELSE quoted,
                                backslash, toks)
         ELSE IF backslash
         THEN TokenizeLoop(txt, k + 1, tok_begin, quoted, FALSE, toks)
         ELSE IF c = BACKSLASH
         THEN TokenizeLoop(txt, k + 1, tok_begin, quoted, TRUE, toks)
         ELSE IF c = quoted
         THEN TokenizeLoop(txt, k + 1, tok_begin, 0, backslash, toks)
         ELSE IF quoted # 0
         THEN TokenizeLoop(txt, k + 1, tok_begin, quoted, backslash, toks)
         ELSE IF c \in Quotes
         THEN TokenizeLoop(txt, k + 1, tok_begin, c, backslash, toks)
         ELSE IF c \notin TokenBreaks
         THEN TokenizeLoop(txt, k + 1, tok_begin, quoted, backslash, toks)
         ELSE TokenizeLoop(txt, k + 1, 0, quoted, backslash,
                           Append(toks, SubSeq(txt, tok_begin, k)))

\* drsh_tokenize_line: the tokens of a line
drsh_tokenize_line(rb) == TokenizeLoop(rb, 0, 0, 0, FALSE, <<>>)

\* drsh_tokens_to_argv for tokens that hold no quote, backslash, '~', '$',
\* or glob character: drsh_canonicalize and the glob hand such a token back
\* as it is, and the vector ends with a null pointer
drsh_tokens_to_argv(toks) == toks \o <<NULL>>

DOLLAR == 36

\* the bytes of a variable's name after '$': A-Z, a-z, 0-9 and '_'
IsNameByte(c) ==
    \/ c >= 65 /\ c <= 90
    \/ c >= 97 /\ c <= 122
    \/ c >= DIGIT_0 /\ c <= DIGIT_9
    \/ c = 95

\* a variant of Expanded that appends nothing
Expanded_M(e, key, tmp) == tmp

\* tmp after the name that follows a '$' came to its end: the value of the
\* variable is appended if the name is not empty and the variable is set
Expanded(e, key, tmp) ==
    IF Len(key) > 0 /\ drsh_env_get_env(e, key) # NULL
    THEN tmp \o drsh_env_get_env(e, key)
    ELSE tmp

\* the part of a turn of drsh_canonicalize's loop after the test of dollar:
\* the switch on c and the appending, on to the next turn
RECURSIVE CanonLoop(_, _, _, _, _, _, _)
CanonSwitch(tok, p, quoted, backslash, tmp, e) ==
    IF tok[p] = DOLLAR /\ ~backslash
    THEN CanonLoop(tok, p + 1, p, quoted, backslash, tmp, e)
    ELSE IF tok[p] \in Quotes /\ ~backslash /\ quoted = tok[p]
    THEN CanonLoop(tok, p + 1, 0, 0, backslash, tmp, e)
    ELSE IF tok[p] \in Quotes /\ ~backslash /\ quoted = 0
    THEN CanonLoop(tok, p + 1, 0, tok[p], backslash, tmp, e)
    ELSE IF tok[p] = BACKSLASH /\ ~backslash
    THEN CanonLoop(tok, p + 1, 0, quoted, TRUE, tmp, e)
    ELSE IF backslash /\ tok[p] \notin {SPACE} \cup Quotes
    THEN CanonLoop(tok, p + 1, 0, quoted, FALSE,
                   tmp \o <<BACKSLASH, tok[p]>>, e)
    ELSE CanonLoop(tok, p + 1, 0, quoted, FALSE, tmp \o <<tok[p]>>, e)

\* the loop of drsh_canonicalize from the byte at place p on: dollar is the
\* place of the '$' whose name is being read (0: none), quoted the open
\* quote (0: none); the value is tmp as it is handed to drsh_at_atomize
CanonLoop(tok, p, dollar, quoted, backslash, tmp, e) ==
    IF p > Len(tok)
    THEN IF dollar # 0
         THEN Expanded(e, SubSeq(tok, dollar + 1, Len(tok)), tmp)
         ELSE tmp
    ELSE IF dollar # 0 /\ IsNameByte(tok[p])
    THEN CanonLoop(tok, p + 1, dollar, quoted, backslash, tmp, e)
    ELSE IF dollar # 0
    THEN CanonSwitch(tok, p, quoted, backslash,
                     Expanded(e, SubSeq(tok, dollar + 1, p - 1), tmp), e)
    ELSE CanonSwitch(tok, p, quoted, backslash, tmp, e)

\* the leading '~' of the token is replaced by env->home
TildeExpands(tok, backslash_is_sep, e) ==
    /\ Len(tok) # 0
    /\ tok[1] = TILDE
    /\ e.home # NULL
    /\ Len(e.home) # 0
    /\ \/ Len(tok) = 1
       \/ tok[2] = SLASH
       \/ backslash_is_sep /\ tok[2] = BACKSLASH

\* drsh_canonicalize: the text of the atom it yields
drsh_canonicalize(tok, backslash_is_sep, e) ==
    IF TildeExpands(tok, backslash_is_sep, e)
    THEN CanonLoop(tok, 2, 0, 0, FALSE, e.home, e)
    ELSE CanonLoop(tok, 1, 0, 0, FALSE, <<>>, e)

\* the spellings of the builtins' atoms
ATOM_cd == <<99, 100>>
ATOM_echo == <<101, 99, 104, 111>>
ATOM_exit == <<101, 120, 105, 116>>
ATOM_set == <<115, 101, 116>>
ATOM_debug == <<100, 101, 98, 117, 103>>
ATOM_source == <<115, 111, 117, 114, 99, 101>>
ATOM_DOT == <<DOT>>
ATOM_time == <<116, 105, 109, 101>>

\* the directories and the programs of the file system main runs in: /w and
\* /w/a, and the one program x on the PATH
Directories == {WorkDir, WorkDir \o <<SLASH, 97>>}
Programs == {<<120>>}

\* drsh_env_resolve_prog_path, as far as whether it finds the program
drsh_env_resolve_prog_path(prog) ==
    IF prog \in Programs THEN EC_OK ELSE EC_NOT_FOUND

COLON == 58
SEMICOLON == 59

\* drsh_memchr on the bytes of txt from front on: the place of the first
\* sep, or one past the end of txt
drsh_memchr(txt, front, sep) ==
    IF \E i \in front..Len(txt) : txt[i] = sep
    THEN CHOOSE i \in front..Len(txt) :
             /\ txt[i] = sep
             /\ \A j \in front..(i - 1) : txt[j] # sep
    ELSE Len(txt) + 1

\* drsh_rb_iendswith2
drsh_rb_iendswith2(rb, mem) ==
    /\ Len(rb) >= Len(mem)
    /\ \A i \in 1..Len(mem) :
         Or20(rb[Len(rb) - Len(mem) + i]) = Or20(mem[i])

\* drsh_exists: files is the set of the paths that stat finds
drsh_exists(files, path) == path \in files

\* the text the PATHEXT loops walk: the variable, or ".exe" when it is unset
\* or empty
PathExts(pathexts) ==
    IF pathexts # NULL /\ Len(pathexts) # 0
    THEN pathexts
    ELSE <<DOT, 101, 120, 101>>

\* the loop that sets has_ext, from the entry at front on
RECURSIVE HasExt(_, _, _)
HasExt(rb, ext, front) ==
    IF drsh_rb_iendswith2(rb,
           SubSeq(ext, front, drsh_memchr(ext, front, SEMICOLON) - 1))
    THEN TRUE
    ELSE IF drsh_memchr(ext, front, SEMICOLON) = Len(ext) + 1
    THEN FALSE
    ELSE HasExt(rb, ext, drsh_memchr(ext, front, SEMICOLON) + 1)

\* the loop that appends each entry of PATHEXT to tmp and probes, from the
\* entry at front on: the path that exists, or NULL
RECURSIVE ProbeExts(_, _, _, _)
ProbeExts(files, tmp, ext, front) ==
    IF drsh_exists(files,
           tmp \o SubSeq(ext, front, drsh_memchr(ext, front, SEMICOLON) - 1))
    THEN tmp \o SubSeq(ext, front, drsh_memchr(ext, front, SEMICOLON) - 1)
    ELSE IF drsh_memchr(ext, front, SEMICOLON) = Len(ext) + 1
    THEN NULL
    ELSE ProbeExts(files, tmp, ext, drsh_memchr(ext, front, SEMICOLON) + 1)

\* a variant of ProbeDirectory that appends the entries of PATHEXT whether
\* or not the program has an extension
ProbeDirectory_M(files, tmp, pathexts, windows_style) ==
    IF windows_style
    THEN ProbeExts(files, tmp, PathExts(pathexts), 1)
    ELSE IF drsh_exists(files, tmp) THEN tmp ELSE NULL

\* the probing of one directory, tmp holding directory/program: the path
\* that exists, or NULL
ProbeDirectory(files, tmp, pathexts, windows_style) ==
    IF windows_style
    THEN IF HasExt(tmp, PathExts(pathexts), 1)
         THEN IF drsh_exists(files, tmp) THEN tmp ELSE NULL
         ELSE ProbeExts(files, tmp, PathExts(pathexts), 1)
    ELSE IF drsh_exists(files, tmp) THEN tmp ELSE NULL

\* tmp after the directory, the slash and the program are appended; c is
\* the byte that follows the directory
DirectoryProgram(directory, c, program, windows_style) ==
    IF (windows_style /\ c = BACKSLASH) \/ c = SLASH
    THEN directory \o program
    ELSE directory \o <<SLASH>> \o program

\* the byte at place i of the NUL-terminated txt
ByteAt(txt, i) == IF i > Len(txt) THEN 0 ELSE txt[i]

PathSeparator(windows_style) == IF windows_style THEN SEMICOLON ELSE COLON

\* one turn of the loop over PATH, the directory running from p up to s,
\* the place strchr found (one past the end stands for its NULL): an empty
\* directory is passed over, any other is probed
PathTurn(files, path, p, s, program, pathexts, windows_style) ==
    IF s = p
    THEN NULL
    ELSE ProbeDirectory(files,
             DirectoryProgram(SubSeq(path, p, s - 1), ByteAt(path, s),
                              program, windows_style),
             pathexts, windows_style)

\* the loop over PATH from the directory at p on: the path that exists, or
\* NULL
RECURSIVE PathLoop(_, _, _, _, _, _, _)
PathLoop(files, path, p, s, program, pathexts, windows_style) ==
    IF PathTurn(files, path, p, s, program, pathexts, windows_style) # NULL
    THEN PathTurn(files, path, p, s, program, pathexts, windows_style)
    ELSE IF s = Len(path) + 1
    THEN NULL
    ELSE PathLoop(files, path, s + 1,
             drsh_memchr(path, s + 1, PathSeparator(windows_style)),
             program, pathexts, windows_style)

\* the program names a directory: it is absolute or holds a separator
HasDir(program, windows_style) ==
    \/ drsh_path_is_abs(program, windows_style)
    \/ \E i \in 1..Len(program) : program[i] = SLASH
    \/ windows_style /\ \E i \in 1..Len(program) : program[i] = BACKSLASH

\* the path drsh_env_resolve_prog_path leaves in tmp, or NULL when it
\* returns EC_NOT_FOUND: path, pathexts and pwd are the values of PATH,
\* PATHEXT and PWD (NULL when unset), files the paths that exist
ResolvedPath(files, path, pathexts, pwd, program, windows_style) ==
    IF HasDir(program, windows_style)
    THEN IF windows_style
         THEN ProbeDirectory(files, program, pathexts, TRUE)
         ELSE program
    ELSE IF path = NULL
    THEN NULL
    ELSE IF PathLoop(files, path, 1,
                drsh_memchr(path, 1, PathSeparator(windows_style)),
                program, pathexts, windows_style) # NULL
    THEN PathLoop(files, path, 1,
             drsh_memchr(path, 1, PathSeparator(windows_style)),
             program, pathexts, windows_style)
    ELSE IF windows_style
    THEN ProbeDirectory(files, DirectoryProgram(pwd, 0, program, TRUE),
                        pathexts, TRUE)
    ELSE NULL

\* drsh_env_resolve_prog_path on the values of PATH, PATHEXT and PWD: its
\* return value and the NUL-terminated path in tmp
resolve_prog_path(files, path, pathexts, pwd, program, windows_style) ==
    IF ResolvedPath(files, path, pathexts, pwd, program,
                    windows_style) = NULL
    THEN [err |-> EC_NOT_FOUND, tmp |-> NULL]
    ELSE [err |-> EC_OK,
          tmp |-> ResolvedPath(files, path, pathexts, pwd, program,
                               windows_style) \o <<0>>]

\* drsh_chdir with the chdir and getcwd it makes: files is the file system
\* and e the environment
drsh_chdir(files, e, argv) ==
    IF Len(argv) - 2 # 1
    THEN [fs |-> files, env |-> e, err |-> EC_VALUE_ERROR]
    ELSE LET arg == argv[2]
             target == IF drsh_path_is_abs(arg, IS_WINDOWS) THEN arg
                       ELSE files.cwd \o <<SLASH>> \o arg
             cwd == IF target \in Directories THEN target ELSE files.cwd
         IN  [fs |-> [files EXCEPT !.cwd = cwd],
              env |-> drsh_env_set_env(e, ATOM_PWD, cwd),
              err |-> EC_OK]

\* the names of the variables drsh_env_get_history_path reads
ATOM_DRSH_HISTORY == <<68, 82, 83, 72, 95, 72, 73, 83, 84, 79, 82, 89>>
ATOM_LOCALAPPDATA == <<76, 79, 67, 65, 76, 65, 80, 80, 68, 65, 84, 65>>
ATOM_XDG_STATE_HOME == <<88, 68, 71, 95, 83, 84, 65, 84, 69, 95, 72, 79,
                        77, 69>>
ATOM_XDG_DATA_HOME == <<88, 68, 71, 95, 68, 65, 84, 65, 95, 72, 79, 77, 69>>

\* a variable is set to a text that is not empty
IsSet(e, key) ==
    drsh_env_get_env(e, key) # NULL /\ Len(drsh_env_get_env(e, key)) # 0

\* drsh_env_get_history_path, as far as whether it yields a path; the
\* os_flavor is OS_WINDOWS where IS_WINDOWS and "linux or other" elsewhere
drsh_env_get_history_path(e) ==
    IF drsh_env_get_env(e, ATOM_DRSH_HISTORY) # NULL THEN EC_OK
    ELSE IF IS_WINDOWS
    THEN IF IsSet(e, ATOM_LOCALAPPDATA) THEN EC_OK ELSE EC_NOT_FOUND
    ELSE IF IsSet(e, ATOM_XDG_STATE_HOME) \/ IsSet(e, ATOM_XDG_DATA_HOME)
    THEN EC_OK
    ELSE IF e.home = NULL \/ Len(e.home) = 0 THEN EC_NOT_FOUND
    ELSE EC_OK

\* the names and the texts drsh_env_get_config_path uses: XDG_CONFIG_HOME,
\* DRSH_CONFIG, "/.config" and "/drsh/drsh_config.drsh"
ATOM_XDG_CONFIG_HOME == <<88, 68, 71, 95, 67, 79, 78, 70, 73, 71, 95, 72,
                         79, 77, 69>>
ATOM_DRSH_CONFIG == <<68, 82, 83, 72, 95, 67, 79, 78, 70, 73, 71>>
DotConfig == <<47, 46, 99, 111, 110, 102, 105, 103>>
ConfigFile == <<47, 100, 114, 115, 104, 47, 100, 114, 115, 104, 95, 99, 111,
    110, 102, 105, 103, 46, 100, 114, 115, 104>>

\* drsh_env_get_config_path: the path, or NULL for EC_NOT_FOUND
drsh_env_get_config_path(e) ==
    LET base ==
          IF IS_WINDOWS
          THEN IF IsSet(e, ATOM_LOCALAPPDATA)
               THEN drsh_env_get_env(e, ATOM_LOCALAPPDATA) ELSE NULL
          ELSE IF IsSet(e, ATOM_XDG_CONFIG_HOME)
          THEN drsh_env_get_env(e, ATOM_XDG_CONFIG_HOME)
          ELSE IF e.home = NULL \/ Len(e.home) = 0 THEN NULL
          ELSE e.home \o DotConfig
    IN  IF base = NULL THEN NULL ELSE base \o ConfigFile

\* drsh_open_file_for_appending_with_mkdirs: the open creates the file, and
\* no call makes a directory
drsh_open_file_for_appending_with_mkdirs(files) ==
    IF files.hist_dir
    THEN [fs |-> [files EXCEPT !.hist_exists = TRUE], err |-> EC_OK]
    ELSE [fs |-> files, err |-> EC_IO_ERROR]

\* drsh_append_to_file: the text and a line feed
drsh_append_to_file(files, txt) ==
    [files EXCEPT !.appended = @ \o txt \o <<LF>>]

\* the loop of drsh_hist_dump over the entries from offset k on
RECURSIVE HistDumpLoop(_, _, _)
HistDumpLoop(files, atoms, k) ==
    IF k >= Len(atoms) THEN files
    ELSE HistDumpLoop(drsh_append_to_file(files, atoms[k + 1]), atoms, k + 1)

\* drsh_hist_dump
drsh_hist_dump(i, e, files) ==
    IF drsh_env_get_history_path(e) # EC_OK
    THEN [fs |-> files, err |-> EC_NOT_FOUND]
    ELSE LET o == drsh_open_file_for_appending_with_mkdirs(files) IN
         IF o.err # EC_OK THEN o
         ELSE [fs |-> HistDumpLoop(o.fs, i.hist_buffer, i.hist_start),
               err |-> EC_OK]

\* a line without the line feeds and carriage returns it ends with
RECURSIVE StripLineEnd(_)
StripLineEnd(line) ==
    IF Len(line) # 0 /\ line[Len(line)] \in {LF, CR}
    THEN StripLineEnd(SubSeq(line, 1, Len(line) - 1))
    ELSE line

\* main's loop over the lines of the history file
RECURSIVE HistLoadLoop(_, _)
HistLoadLoop(i, history) ==
    LET n == drsh_rb_to_line(history) IN
    IF n = 0 THEN i
    ELSE HistLoadLoop(drsh_hist_add(i, StripLineEnd(SubSeq(history, 1, n))),
                      Shifted(history, n))

\* the test main's loop ends on after drsh_process_line
LoopBreaks_M(e) == e \in {EC_EXIT, EC_OK}

LoopBreaks(e) == e = EC_EXIT

\* the texts of the files main sources: "x", "exit", "y" and "exit",
\* ". f" and "x", and "cd" and an "x" that no line end follows; and what is
\* left of a text after the buffer it lies in was written over
ScriptTexts ==
    {<<120, LF>>, <<101, 120, 105, 116, LF>>,
     <<121, LF, 101, 120, 105, 116, LF>>,
     <<DOT, SPACE, 102, LF, 120, LF>>,
     <<99, 100, LF, 120>>}
ClobberTexts == ScriptTexts \cup {<<>>}

\* the lines the user accepts: none, "x", "y", "exit", ". f", "cd" and
\* "cd a"
InteractiveLines ==
    {<<>>, <<120>>, <<121>>, ATOM_exit, <<DOT, SPACE, 102>>, ATOM_cd,
     <<99, 100, SPACE, 97>>}

\* the texts of the history file: "x" and a line feed; "cd", CR LF, an
\* empty line and an unterminated "x"
HistFileTexts ==
    {<<120, LF>>, <<99, 100, CR, LF, LF, 120>>}

\* the environment main starts in
MainEnv ==
    [NewEnv EXCEPT !.vars = (ATOM_LOCALAPPDATA :> <<SLASH, 108>>) @@ @]

InitMain ==
    /\ DecodeIdle
    /\ cmd = NoCmd
    /\ err = EC_OK
    /\ inp = NewInput
    /\ ts = NewTermState
    /\ IS_WINDOWS \in BOOLEAN
    /\ outbuf = <<>>
    /\ rl_pc = "idle"
    /\ env = MainEnv
    /\ main_pc = "start"
    /\ spawn_pc = "none"
    /\ script = NoScript
    /\ \E argc \in 1..(1 + MaxArgvFiles) : args = [argc |-> argc, i |-> 1]
    /\ \E dir \in BOOLEAN, file \in HistFileTexts \cup {NULL} :
         /\ file # NULL => dir
         /\ fs = [cwd |-> WorkDir, hist_dir |-> dir,
                  hist_exists |-> file # NULL,
                  hist_file |-> IF file = NULL THEN <<>> ELSE file,
                  appended |-> <<>>]
    /\ exit_code = -1
    /\ lib = NoCall

\* what the specification of main leaves alone
notMain == <<decVars, cmd, IS_WINDOWS, rl_pc, lib>>

\* main from its entry to the first failing call of drsh_get_io_handles,
\* drsh_ts_init, drsh_at_init, drsh_env_init, drsh_refresh_cwd or
\* drsh_refresh_size: drsh_ts_init fails after it has set the two terminal
\* flags, and main returns 0 for it and 1 for the others
main_init_fails ==
    /\ main_pc = "start"
    /\ \E call \in {"drsh_get_io_handles", "drsh_ts_init", "later"},
          in_term \in BOOLEAN, out_term \in BOOLEAN :
         /\ call = "drsh_ts_init" => in_term \/ (IS_WINDOWS /\ out_term)
         /\ ts' = IF call = "drsh_get_io_handles" THEN ts
                  ELSE [ts EXCEPT !.in_is_terminal = in_term,
                                  !.out_is_terminal = out_term]
         /\ exit_code' = IF call = "drsh_ts_init" THEN 0 ELSE 1
    /\ main_pc' = "returned"
    /\ UNCHANGED <<notMain, err, inp, outbuf, env, spawn_pc, script, args,
                   fs>>

\* main up to the sourcing of the configuration file
main_init ==
    /\ main_pc = "start"
    /\ \E in_term \in BOOLEAN, out_term \in BOOLEAN :
         ts' = [state |-> TS_INIT, in_is_terminal |-> in_term,
                out_is_terminal |-> out_term]
    /\ main_pc' = "config"
    /\ UNCHANGED <<notMain, err, inp, outbuf, env, spawn_pc, script, args,
                   fs, exit_code>>

\* the lines of a text that drsh_source_file runs: those with a terminator
CompleteLines(txt) ==
    LET ends == {k \in 1..Len(txt) : txt[k] \in {0, LF, CR}} IN
    IF ends = {} THEN <<>>
    ELSE SubSeq(txt, 1, CHOOSE k \in ends : \A m \in ends : m <= k)

\* drsh_source_file called by main reads the file, or fails to
SourceFromMain(run_pc, next_pc) ==
    \E file \in ScriptTexts \cup {NULL} :
      IF file = NULL
      THEN main_pc' = next_pc /\ UNCHANGED script
      ELSE /\ main_pc' = run_pc
           /\ script' = [sourcing |-> TRUE, txt |-> file]

\* main finds the path of the configuration file, sets DRSH_CONFIG to it
\* and sources the file
main_source_config ==
    /\ main_pc = "config"
    /\ LET path == drsh_env_get_config_path(env) IN
         IF path = NULL
         THEN main_pc' = "argv" /\ UNCHANGED <<script, env>>
         ELSE /\ env' = drsh_env_set_env(env, ATOM_DRSH_CONFIG, path)
              /\ SourceFromMain("config_run", "argv")
    /\ err' = EC_OK
    /\ UNCHANGED <<notMain, inp, ts, outbuf, spawn_pc, args, fs, exit_code>>

\* main sources the next file of argv
main_source_argv ==
    /\ main_pc = "argv"
    /\ args.i < args.argc
    /\ SourceFromMain("argv_run", "argv")
    /\ args' = [args EXCEPT !.i = @ + 1]
    /\ err' = EC_OK
    /\ UNCHANGED <<notMain, inp, ts, outbuf, env, spawn_pc, fs, exit_code>>

\* main after the loop over argv: if(argc > 1) goto Lfinish, else the
\* history file is read and its lines added to the history
main_load_history ==
    /\ main_pc = "argv"
    /\ args.i >= args.argc
    /\ IF args.argc > 1
       THEN main_pc' = "finish" /\ UNCHANGED inp
       ELSE /\ main_pc' = "read_line"
            /\ inp' = IF drsh_env_get_history_path(env) = EC_OK
                         /\ fs.hist_exists
                      THEN LET i == HistLoadLoop(inp, fs.hist_file) IN
                           [i EXCEPT !.hist_start = i.hist_cursor]
                      ELSE inp
    /\ UNCHANGED <<notMain, err, ts, outbuf, env, spawn_pc, script, args,
                   fs, exit_code>>

\* main calls drsh_read_line, which as its first step calls drsh_ts_raw and
\* returns where that fails
main_read_line_enter ==
    /\ main_pc = "read_line"
    /\ \E syscall_ok \in BOOLEAN :
         LET r == drsh_ts_raw(ts, syscall_ok) IN
           /\ ts' = r.ts
           /\ err' = r.err
           /\ main_pc' = IF r.err # EC_OK THEN "hist_dump" ELSE "editing"
    /\ inp' = [inp EXCEPT !.write_buffer = <<>>, !.needs_redisplay = TRUE,
                          !.write_cursor = 0]
    /\ UNCHANGED <<notMain, outbuf, env, spawn_pc, script, args, fs,
                   exit_code>>

\* drsh_read_line reads the terminal until a line is accepted, the input
\* ends or a read fails, the keys having moved hist_cursor anywhere; main
\* adds an accepted line to the history if stdin is a terminal
main_read_line_return ==
    /\ main_pc = "editing"
    /\ \E e \in {EC_OK, EC_EOF, EC_IO_ERROR}, line \in InteractiveLines,
          cursor \in 0..Len(inp.hist_buffer) :
         LET i == [inp EXCEPT !.write_buffer = IF e = EC_OK THEN line
                                               ELSE <<>>,
                              !.write_cursor = 0,
                              !.hist_cursor = cursor]
         IN  /\ err' = e
             /\ IF e # EC_OK
                THEN /\ main_pc' = "hist_dump"
                     /\ inp' = i
                     /\ UNCHANGED outbuf
                ELSE /\ main_pc' = "process"
                     /\ outbuf' = line
                     /\ inp' = IF ts.in_is_terminal
                               THEN drsh_hist_add(i, line) ELSE i
                     /\ Len(inp'.hist_buffer) <= MaxHist
    /\ UNCHANGED <<notMain, ts, env, spawn_pc, script, args, fs, exit_code>>

\* a line is being processed by drsh_process_line: one of the sourced text,
\* or the line accepted interactively
AtLine ==
    /\ main_pc \in {"config_run", "argv_run", "process"}
    /\ spawn_pc = "none"
    /\ script.sourcing => drsh_rb_to_line(script.txt) # 0

CurLine ==
    IF script.sourcing
    THEN SubSeq(script.txt, 1, drsh_rb_to_line(script.txt))
    ELSE outbuf

\* the sourced text after drsh_rb_shift over the current line
Rest ==
    IF script.sourcing
    THEN [script EXCEPT !.txt = Shifted(@, drsh_rb_to_line(script.txt))]
    ELSE script

\* the argument vector of the current line
CurArgv == drsh_tokens_to_argv(drsh_tokenize_line(CurLine))

\* the sourced text after tmp, which it lies in, was cleared and written:
\* the bytes not yet run are as they were or any others
Clobbered(scr) ==
    IF scr.sourcing
    THEN {scr} \cup {[scr EXCEPT !.txt = t] : t \in ClobberTexts}
    ELSE {scr}

\* drsh_source_file or drsh_process_line returns e to main: main returns 0
\* on EC_EXIT out of a sourced file, and leaves its loop as LoopBreaks says
MainResumes(e) ==
    /\ script' = NoScript
    /\ spawn_pc' = "none"
    /\ err' = IF main_pc = "process" \/ e = EC_EXIT THEN e ELSE EC_OK
    /\ IF main_pc = "process"
       THEN /\ main_pc' = IF LoopBreaks(e) THEN "hist_dump" ELSE "read_line"
            /\ UNCHANGED exit_code
       ELSE IF e = EC_EXIT
       THEN main_pc' = "returned" /\ exit_code' = 0
       ELSE main_pc' = "argv" /\ UNCHANGED exit_code

\* a variant of ProcessLineReturns that goes on with the sourced text after
\* EC_EXIT
ProcessLineReturns_M(e, scr) ==
    IF scr.sourcing
    THEN /\ script' = scr
         /\ spawn_pc' = "none"
         /\ UNCHANGED <<main_pc, err, exit_code>>
    ELSE MainResumes(e)

\* drsh_process_line returns e, scr being the sourced text still to run
ProcessLineReturns(e, scr) ==
    IF scr.sourcing /\ e # EC_EXIT
    THEN /\ script' = scr
         /\ spawn_pc' = "none"
         /\ UNCHANGED <<main_pc, err, exit_code>>
    ELSE MainResumes(e)

\* the built-ins whose work is to print
Printing == {ATOM_echo, ATOM_pwd, ATOM_debug}

\* drsh_process_line on a line that is a lone line end, or cd, echo, pwd,
\* set, debug, or source or time without an argument
process_builtin ==
    /\ AtLine
    /\ LET argv == CurArgv
           first == argv[1]
       IN  /\ \/ Len(CurLine) = 1 /\ CurLine[1] \in {CR, LF}
              \/ first \in Printing \cup {ATOM_cd, ATOM_set}
              \/ first \in {ATOM_source, ATOM_DOT, ATOM_time}
                 /\ ~(Len(argv) > 2)
           /\ IF Len(CurLine) = 1 /\ CurLine[1] \in {CR, LF}
              THEN UNCHANGED <<env, fs>>
              ELSE IF first = ATOM_cd
              THEN LET r == drsh_chdir(fs, env, argv) IN
                   env' = r.env /\ fs' = r.fs
              ELSE IF first = ATOM_set /\ Len(argv) = 4 /\ Len(argv[2]) # 0
              THEN env' = drsh_env_set_env(env, argv[2], argv[3])
                   /\ UNCHANGED fs
              ELSE UNCHANGED <<env, fs>>
    /\ ProcessLineReturns(EC_OK, Rest)
    /\ UNCHANGED <<notMain, inp, ts, outbuf, args>>

\* the line's first word is not a built-in's, or follows time
Spawns(argv) ==
    /\ ~(Len(CurLine) = 1 /\ CurLine[1] \in {CR, LF})
    /\ argv[1] \notin Printing \cup {ATOM_cd, ATOM_set, ATOM_exit,
                                     ATOM_source, ATOM_DOT}
    /\ argv[1] = ATOM_time => Len(argv) > 2

\* the vector drsh_spawn_process_and_wait gets
SpawnArgv(argv) == IF argv[1] = ATOM_time THEN Tail(argv) ELSE argv

\* drsh_process_line on exit
process_exit ==
    /\ AtLine
    /\ CurArgv[1] = ATOM_exit
    /\ ProcessLineReturns(EC_EXIT, Rest)
    /\ UNCHANGED <<notMain, inp, ts, outbuf, env, args, fs>>

\* the most bytes of sourced text that wait to be run, which bounds the
\* depth of the sourcing
MaxScript == 8

\* drsh_process_line on source or . with an argument: drsh_source_file
\* clears tmp and reads the file into it, or fails to; the lines of the file
\* run, and then what the sourcing text has left
process_source ==
    /\ AtLine
    /\ CurArgv[1] \in {ATOM_source, ATOM_DOT}
    /\ Len(CurArgv) > 2
    /\ \E file \in ScriptTexts \cup {NULL}, outer \in Clobbered(Rest) :
         IF file = NULL
         THEN ProcessLineReturns(EC_OK, outer)
         ELSE /\ Len(CompleteLines(file) \o outer.txt) <= MaxScript
              /\ script' = [sourcing |-> TRUE,
                            txt |-> CompleteLines(file) \o outer.txt]
              /\ UNCHANGED <<main_pc, spawn_pc, err, exit_code>>
    /\ UNCHANGED <<notMain, inp, ts, outbuf, env, args, fs>>

\* drsh_spawn_process_and_wait returns before it touches the terminal: there
\* is no argv[0], or the program is not found; drsh_process_line prints
\* "error" and returns EC_OK
process_spawn_unresolved ==
    /\ AtLine
    /\ Spawns(CurArgv)
    /\ LET argv == SpawnArgv(CurArgv) IN
         IF argv[1] = NULL
         THEN ProcessLineReturns(EC_OK, Rest)
         ELSE /\ drsh_env_resolve_prog_path(argv[1]) # EC_OK
              /\ \E scr \in Clobbered(Rest) : ProcessLineReturns(EC_OK, scr)
    /\ UNCHANGED <<notMain, inp, ts, outbuf, env, args, fs>>

\* drsh_spawn_process_and_wait resolves the program
process_spawn_resolved ==
    /\ AtLine
    /\ Spawns(CurArgv)
    /\ LET argv == SpawnArgv(CurArgv) IN
         /\ argv[1] # NULL
         /\ drsh_env_resolve_prog_path(argv[1]) = EC_OK
    /\ \E scr \in Clobbered(Rest) : script' = scr
    /\ spawn_pc' = "ts_orig"
    /\ UNCHANGED <<notMain, err, inp, ts, outbuf, env, main_pc, args, fs,
                   exit_code>>

\* drsh_spawn_process_and_wait calls drsh_ts_orig, and outside _WIN32
\* returns its error
spawn_ts_orig ==
    /\ spawn_pc = "ts_orig"
    /\ \E syscall_ok \in BOOLEAN :
         LET r == drsh_ts_orig(ts, syscall_ok) IN
           /\ ts' = r.ts
           /\ IF r.err # EC_OK /\ ~IS_WINDOWS
              THEN ProcessLineReturns(EC_OK, script)
              ELSE /\ spawn_pc' = "spawn"
                   /\ UNCHANGED <<main_pc, script, err, exit_code>>
    /\ UNCHANGED <<notMain, inp, outbuf, env, args, fs>>

\* posix_spawn or CreateProcessA, drsh_ts_unknown, and the wait for the
\* child where there is one
spawn_process_and_wait ==
    /\ spawn_pc = "spawn"
    /\ ts' = drsh_ts_unknown(ts).ts
    /\ ProcessLineReturns(EC_OK, script)
    /\ UNCHANGED <<notMain, inp, outbuf, env, args, fs>>

\* drsh_source_file finds no further line and returns EC_OK
source_file_end ==
    /\ main_pc \in {"config_run", "argv_run", "process"}
    /\ spawn_pc = "none"
    /\ script.sourcing
    /\ drsh_rb_to_line(script.txt) = 0
    /\ MainResumes(EC_OK)
    /\ UNCHANGED <<notMain, inp, ts, outbuf, env, args, fs>>

\* main after its loop: drsh_hist_dump, its error ignored
main_hist_dump ==
    /\ main_pc = "hist_dump"
    /\ fs' = drsh_hist_dump(inp, env, fs).fs
    /\ err' = drsh_hist_dump(inp, env, fs).err
    /\ main_pc' = "finish"
    /\ UNCHANGED <<notMain, inp, ts, outbuf, env, spawn_pc, script, args,
                   exit_code>>

\* main at Lfinish: drsh_ts_orig, its error ignored, and return 0
main_finish ==
    /\ main_pc = "finish"
    /\ \E syscall_ok \in BOOLEAN :
         /\ ts' = drsh_ts_orig(ts, syscall_ok).ts
         /\ err' = drsh_ts_orig(ts, syscall_ok).err
    /\ main_pc' = "returned"
    /\ exit_code' = 0
    /\ UNCHANGED <<notMain, inp, outbuf, env, spawn_pc, script, args, fs>>

Next ==
    \/ main_init_fails
    \/ main_init
    \/ main_source_config
    \/ main_source_argv
    \/ main_load_history
    \/ main_read_line_enter
    \/ main_read_line_return
    \/ process_builtin
    \/ process_exit
    \/ process_source
    \/ process_spawn_unresolved
    \/ process_spawn_resolved
    \/ spawn_ts_orig
    \/ spawn_process_and_wait
    \/ source_file_end
    \/ main_hist_dump
    \/ main_finish

Spec == InitMain /\ [][Next]_vars

----------------------------------------------------------------------------
(* SpecDistance: byte_expansion_distance and byte_expansion_distance_icase *)
(* called once on a haystack and a needle drawn at Init.                   *)

\* longest haystack and longest needle tried
MaxHaystack == 3
MaxNeedle == 3

\* the bytes of haystacks and needles: 'a', 'A' and 'b'
DistanceBytes == {97, 65, 98}

InitDistance ==
    /\ NoProgram
    /\ \E h \in SeqsUpTo(DistanceBytes, MaxHaystack),
          n \in SeqsUpTo(DistanceBytes, MaxNeedle),
          fn \in {"byte_expansion_distance", "byte_expansion_distance_icase"} :
         lib = [fn |-> fn, haystack |-> h, needle |-> n,
                returned |-> FALSE, ret |-> 0]

\* ssize_t ret = byte_expansion_distance(haystack, ..., needle, ...)
call_byte_expansion_distance ==
    /\ lib.fn = "byte_expansion_distance"
    /\ ~lib.returned
    /\ lib' = [lib EXCEPT
                 !.returned = TRUE,
                 !.ret = byte_expansion_distance(lib.haystack, lib.needle)]
    /\ UNCHANGED notLib

\* ssize_t ret = byte_expansion_distance_icase(haystack, ..., needle, ...)
call_byte_expansion_distance_icase ==
    /\ lib.fn = "byte_expansion_distance_icase"
    /\ ~lib.returned
    /\ lib' = [lib EXCEPT
                 !.returned = TRUE,
                 !.ret = byte_expansion_distance_icase(lib.haystack, lib.needle)]
    /\ UNCHANGED notLib

NextDistance ==
    \/ call_byte_expansion_distance
    \/ call_byte_expansion_distance_icase

SpecDistance == InitDistance /\ [][NextDistance]_vars

----------------------------------------------------------------------------
(* SpecRank: the ranking, sort and tail drop of drsh_tab_completion's      *)
(* first TAB on a basename and a directory listing drawn at Init.          *)

\* longest typed basename and most directory entries
MaxBasename == 2
MaxEntries == 3

\* the bytes of the typed basename: 'a', 'A' and 'b'
RankBytes == {97, 65, 98}

\* the names drsh_readdir lists: ab, Ab, ba, acb, .ab and b
RankNames ==
    {<<97, 98>>, <<65, 98>>, <<98, 97>>, <<97, 99, 98>>, <<DOT, 97, 98>>,
     <<98>>}

InitRank ==
    /\ NoProgram
    /\ \E basename \in SeqsUpTo(RankBytes, MaxBasename),
          listed \in SeqsUpTo(RankNames, MaxEntries) :
         lib = [fn |-> "drsh_tab_completion", basename |-> basename,
                listed |-> <<basename>> \o listed,
                returned |-> FALSE, words |-> <<>>]

\* drsh_tab_completion from the scoring loop to the tail drop, the
\* candidate list holding the typed basename and what drsh_readdir appended
rank_tab_completions ==
    /\ lib.fn = "drsh_tab_completion"
    /\ ~lib.returned
    /\ lib' = [lib EXCEPT !.returned = TRUE,
                          !.words = RankedList(lib.listed, lib.basename)]
    /\ UNCHANGED notLib

NextRank == rank_tab_completions

SpecRank == InitRank /\ [][NextRank]_vars

----------------------------------------------------------------------------
(* SpecAtoms: drsh_at_atomize called again and again on one DrshAtomTable. *)
(* An atom pointer is the atom's place in the table's array, a uint32_t is *)
(* the pair of its 16-bit halves.                                          *)

\* the hash values the model's hash yields: 0, 2^30, 2^31 and 7 * 2^29
HashValues == <<<<0, 0>>, <<16384, 0>>, <<32768, 0>>, <<57344, 0>>>>

\* the hash functions tried: the build selects one of three
\* drsh_hash_align1 (two CRC32C, one murmur); every seed stands for one
\* assignment of hash values to texts, seed 4 giving every text the hash 0
HashSeeds == 1..4

RECURSIVE ByteSum(_)
ByteSum(txt) == IF Len(txt) = 0 THEN 0 ELSE txt[1] + ByteSum(Tail(txt))

drsh_hash_align1(seed, txt) ==
    HashValues[(((ByteSum(txt) + Len(txt)) * seed) % Len(HashValues)) + 1]

\* ((uint64_t)x * (uint64_t)y) >> 32, for y < 2^15
drsh_fast_reduce32(x, y) == (x[1] * y + (x[2] * y) \div 65536) \div 65536

\* DrshAtomTable at = {0}
NewAtomTable == [cap |-> 0, count |-> 0, atoms |-> <<>>, idxes |-> <<>>]

\* idx++; if(idx > 2*cap) idx = 0;
NextIdx(idx, cap) == IF idx + 1 > 2 * cap THEN 0 ELSE idx + 1

\* while(idxes[idx]) of the growth: the free slot found from idx on, or
\* 2*cap when the loop reads idxes[2*cap], past the array
RECURSIVE FreeSlot(_, _, _)
FreeSlot(idxes, cap, idx) ==
    IF idx >= 2 * cap THEN idx
    ELSE IF idxes[idx + 1] = 0 THEN idx
    ELSE FreeSlot(idxes, cap, NextIdx(idx, cap))

\* the loop of the growth that enters the atoms from the i-th on into idxes
RECURSIVE Rehash(_, _, _, _)
Rehash(atoms, cap, idxes, i) ==
    IF i > Len(atoms) THEN idxes
    ELSE IF FreeSlot(idxes, cap,
                     drsh_fast_reduce32(atoms[i].hash, cap)) >= 2 * cap
    THEN idxes
    ELSE Rehash(atoms, cap,
                [idxes EXCEPT ![FreeSlot(idxes, cap,
                                  drsh_fast_reduce32(atoms[i].hash, cap)) + 1]
                                = i],
                i + 1)

\* the table with the capacity cap and its index built anew
Regrown(at, cap) ==
    [at EXCEPT !.cap = cap,
               !.idxes = Rehash(at.atoms, cap, [k \in 1..(2 * cap) |-> 0], 1)]

\* if(at->count * 10/8 >= at->cap){ grow }
GrowAtomTable(at) ==
    IF (at.count * 10) \div 8 >= at.cap
    THEN Regrown(at, IF at.cap # 0 THEN 2 * at.cap ELSE 4)
    ELSE at

\* atom->hash == hash && atom->len == length && memcmp(...) == 0, by hash
\* and length alone
AtomMatches_M(atom, hash, txt) ==
    atom.hash = hash /\ Len(atom.txt) = Len(txt)

\* atom->hash == hash && atom->len == length && memcmp(...) == 0
AtomMatches(atom, hash, txt) ==
    atom.hash = hash /\ Len(atom.txt) = Len(txt) /\ atom.txt = txt

\* while((i = idxes[idx])) of the lookup: the slot the loop ends at and the
\* atom found there, 0 for none; oob when it reads idxes[2*cap]
RECURSIVE AtomLookup(_, _, _, _)
AtomLookup(at, idx, hash, txt) ==
    IF idx >= 2 * at.cap THEN [idx |-> idx, atom |-> 0, oob |-> TRUE]
    ELSE IF at.idxes[idx + 1] = 0
    THEN [idx |-> idx, atom |-> 0, oob |-> FALSE]
    ELSE IF AtomMatches(at.atoms[at.idxes[idx + 1]], hash, txt)
    THEN [idx |-> idx, atom |-> at.idxes[idx + 1], oob |-> FALSE]
    ELSE AtomLookup(at, NextIdx(idx, at.cap), hash, txt)

\* if(!hash) hash = 1024;
AtomHash(seed, txt) ==
    IF drsh_hash_align1(seed, txt) = <<0, 0>> THEN <<0, 1024>>
    ELSE drsh_hash_align1(seed, txt)

\* the new atom entered at the slot the lookup ended at; iatom is the atom
\* itself when no byte changes under | 0x20, else NULL (0) for now
WithNewAtom(at, slot, hash, txt) ==
    [at EXCEPT !.count = at.count + 1,
               !.idxes[slot + 1] = at.count + 1,
               !.atoms = Append(@, [txt |-> txt, hash |-> hash,
                                    iatom |-> IF iatom(txt) = txt
                                              THEN at.count + 1 ELSE 0])]

\* what a call returns: the table, the atom, and the calls made with their
\* results, the recursive one first
AtomResult(at, atom, txt, calls, oob) ==
    [at |-> at, atom |-> atom, oob |-> oob,
     calls |-> calls \cup {[txt |-> txt, atom |-> atom]}]

\* a->iatom is set from the recursive call's result r
WithFolded(r, atom, txt) ==
    AtomResult([r.at EXCEPT !.atoms[atom].iatom = r.atom], atom, txt,
               r.calls, r.oob)

RECURSIVE drsh_at_atomize(_, _, _)

\* drsh_at_atomize after the lookup r in the table at
AtomizeFound(at, seed, txt, r) ==
    IF r.oob THEN AtomResult(at, 0, txt, {}, TRUE)
    ELSE IF r.atom # 0 THEN AtomResult(at, r.atom, txt, {}, FALSE)
    ELSE IF iatom(txt) = txt
    THEN AtomResult(WithNewAtom(at, r.idx, AtomHash(seed, txt), txt),
                    at.count + 1, txt, {}, FALSE)
    ELSE WithFolded(
             drsh_at_atomize(WithNewAtom(at, r.idx, AtomHash(seed, txt), txt),
                             seed, iatom(txt)),
             at.count + 1, txt)

\* drsh_at_atomize in the table at, grown where it had to be
AtomizeIn(at, seed, txt) ==
    AtomizeFound(at, seed, txt,
                 AtomLookup(at, drsh_fast_reduce32(AtomHash(seed, txt), at.cap),
                            AtomHash(seed, txt), txt))

drsh_at_atomize(at, seed, txt) == AtomizeIn(GrowAtomTable(at), seed, txt)

\* the texts atomized: a, A, [, {, Ab and aB
AtomTexts ==
    {<<97>>, <<65>>, <<91>>, <<123>>, <<65, 98>>, <<97, 66>>}

InitAtoms ==
    /\ NoProgram
    /\ \E seed \in HashSeeds :
         lib = [fn |-> "drsh_at_atomize", seed |-> seed, at |-> NewAtomTable,
                calls |-> {}, oob |-> FALSE]

\* err = drsh_at_atomize(at, txt, length, &atom)
call_drsh_at_atomize(txt) ==
    /\ lib.fn = "drsh_at_atomize"
    /\ ~lib.oob
    /\ lib' = [lib EXCEPT
                 !.at = drsh_at_atomize(lib.at, lib.seed, txt).at,
                 !.calls = @ \cup drsh_at_atomize(lib.at, lib.seed, txt).calls,
                 !.oob = drsh_at_atomize(lib.at, lib.seed, txt).oob]
    /\ UNCHANGED notLib

NextAtoms == \E txt \in AtomTexts : call_drsh_at_atomize(txt)

SpecAtoms == InitAtoms /\ [][NextAtoms]_vars

----------------------------------------------------------------------------
(* SpecEnv: drsh_env_set_env, drsh_env_get_env and drsh_env_sort_env called *)
(* on one DrshEnvironment, with its array of key/value pairs and its index. *)
(* An atom is its text; its hash is the one drsh_at_atomize stored.         *)

\* DrshEnvironment env = {0}, case_insensitive as drsh_env_init sets it
NewEnvTable(case_insensitive) ==
    [case_insensitive |-> case_insensitive, cap |-> 0, count |-> 0,
     sorted |-> FALSE, pairs |-> <<>>, idxes |-> <<>>, fault |-> FALSE]

\* lkey = case_insensitive ? key->iatom : key
LKey(t, key) == IF t.case_insensitive THEN iatom(key) ELSE key

\* the loop that enters the pairs from the i-th on into a cleared index
RECURSIVE EnvRehash(_, _, _, _, _)
EnvRehash(t, seed, cap, idxes, i) ==
    IF i > t.count THEN idxes
    ELSE IF FreeSlot(idxes, cap,
                     drsh_fast_reduce32(
                         AtomHash(seed, LKey(t, t.pairs[i].key)), cap))
              >= 2 * cap
    THEN idxes
    ELSE EnvRehash(t, seed, cap,
                   [idxes EXCEPT
                      ![FreeSlot(idxes, cap,
                                 drsh_fast_reduce32(
                                     AtomHash(seed, LKey(t, t.pairs[i].key)),
                                     cap)) + 1] = i],
                   i + 1)

\* the index of t built anew for the capacity cap
EnvReindexed(t, seed, cap) ==
    [t EXCEPT !.cap = cap,
              !.idxes = EnvRehash(t, seed, cap, [k \in 1..(2 * cap) |-> 0], 1)]

\* if(env->count * 10 /8 >= env->cap){ grow }
GrowEnvTable(t, seed) ==
    IF (t.count * 10) \div 8 >= t.cap
    THEN EnvReindexed(t, seed, IF t.cap # 0 THEN 2 * t.cap ELSE 32)
    ELSE t

\* the key qsort compares a pair by: drsh_atom_cmp's or drsh_atom_icmp's
SortKey(pair, icmp) == IF icmp THEN iatom(pair.key) ELSE pair.key

\* the sorted pairs rest with the pair p put in its place
EnvPlaced(rest, p, icmp) ==
    SelectSeq(rest, LAMBDA x : strcmp(SortKey(x, icmp), SortKey(p, icmp)) < 0)
      \o <<p>>
      \o SelectSeq(rest,
                   LAMBDA x : strcmp(SortKey(x, icmp), SortKey(p, icmp)) >= 0)

\* the pairs in the order of strcmp on the keys' texts, or on their iatoms'
RECURSIVE EnvSorted(_, _)
EnvSorted(pairs, icmp) ==
    IF Len(pairs) <= 1 THEN pairs
    ELSE EnvPlaced(EnvSorted(Tail(pairs), icmp), pairs[1], icmp)

\* drsh_env_sort_env, which drsh_env_get_envp and `set` call
drsh_env_sort_env(t, seed) ==
    IF t.sorted \/ t.count = 0 THEN t
    ELSE EnvReindexed([t EXCEPT !.pairs = EnvSorted(t.pairs, t.case_insensitive),
                               !.sorted = TRUE],
                      seed, t.cap)

\* while((i = idxes[idx])) of set and get: the slot the loop ends at and the
\* pair found there, 0 for none, -1 when the loop reads idxes[2*cap]; fold
\* tells whether the stored key is replaced by its iatom before the test
RECURSIVE EnvProbe(_, _, _, _)
EnvProbe(t, idx, lkey, fold) ==
    IF idx >= 2 * t.cap THEN [idx |-> idx, i |-> -1]
    ELSE IF t.idxes[idx + 1] = 0 THEN [idx |-> idx, i |-> 0]
    ELSE IF (IF fold THEN iatom(t.pairs[t.idxes[idx + 1]].key)
             ELSE t.pairs[t.idxes[idx + 1]].key) = lkey
    THEN [idx |-> idx, i |-> t.idxes[idx + 1]]
    ELSE EnvProbe(t, NextIdx(idx, t.cap), lkey, fold)

\* drsh_env_set_env that leaves the stored key of a pair it finds
EnvSetAt_M(t, key, value, r) ==
    IF r.i = -1 THEN [t EXCEPT !.fault = TRUE]
    ELSE IF r.i # 0
    THEN [t EXCEPT !.pairs[r.i] = [key |-> @.key, value |-> value]]
    ELSE [t EXCEPT !.count = t.count + 1,
                   !.idxes[r.idx + 1] = t.count + 1,
                   !.pairs = Append(@, [key |-> key, value |-> value]),
                   !.sorted = FALSE]

\* drsh_env_set_env after the probe r
EnvSetAt(t, key, value, r) ==
    IF r.i = -1 THEN [t EXCEPT !.fault = TRUE]
    ELSE IF r.i # 0
    THEN [t EXCEPT !.pairs[r.i] =
                      [key |-> IF t.case_insensitive THEN key ELSE @.key,
                       value |-> value]]
    ELSE [t EXCEPT !.count = t.count + 1,
                   !.idxes[r.idx + 1] = t.count + 1,
                   !.pairs = Append(@, [key |-> key, value |-> value]),
                   !.sorted = FALSE]

\* drsh_env_set_env in the table t, grown where it had to be
EnvSetIn(t, seed, key, value) ==
    EnvSetAt(t, key, value,
             EnvProbe(t, drsh_fast_reduce32(AtomHash(seed, LKey(t, key)), t.cap),
                      LKey(t, key), t.case_insensitive))

\* drsh_env_set_env on the table representation
EnvSet(t, seed, key, value) == EnvSetIn(GrowEnvTable(t, seed), seed, key, value)

\* the `slow and dumb` loop of drsh_env_get_env from the j-th pair on
RECURSIVE EnvScan(_, _, _)
EnvScan(t, lkey, j) ==
    IF j > t.count THEN NULL
    ELSE IF iatom(t.pairs[j].key) = lkey THEN t.pairs[j].value
    ELSE EnvScan(t, lkey, j + 1)

\* drsh_env_get_env after the probe r
EnvGetAt(t, lkey, r) ==
    IF r.i > 0 THEN t.pairs[r.i].value
    ELSE IF t.case_insensitive THEN EnvScan(t, lkey, 1)
    ELSE NULL

\* a read through a null or a dangling pointer ends the process
FAULT == <<-2>>

\* drsh_env_get_env on the table representation: the values it may return.
\* With cap 0 the index pointer is env->data + 0, a null pointer, and
\* idxes[0] is read through it: the process faults, or whatever the read
\* yields decides the result
EnvGet(t, seed, key, values) ==
    IF t.cap = 0 THEN {FAULT, NULL} \cup values
    ELSE IF EnvProbe(t, drsh_fast_reduce32(AtomHash(seed, LKey(t, key)), t.cap),
                     LKey(t, key), FALSE).i = -1
    THEN {FAULT, NULL} \cup values
    ELSE {EnvGetAt(t, LKey(t, key),
                   EnvProbe(t, drsh_fast_reduce32(
                                   AtomHash(seed, LKey(t, key)), t.cap),
                            LKey(t, key), FALSE))}

\* how many variables the process environment holds where it holds any
EnvFill == 25

\* the keys and values of the calls explored: P, p, q and z; 1 and 2
EnvKeys == {<<80>>, <<112>>, <<113>>, <<122>>}
EnvValues == {<<49>>, <<50>>}

\* the n-th variable of the process environment: V and the byte n
FillKey(n) == <<86, n>>

\* no call of drsh_env_get_env has returned since the last change
NoGet == [key |-> NULL, ret |-> NULL]

InitEnv ==
    /\ NoProgram
    /\ \E seed \in HashSeeds, case_insensitive \in BOOLEAN,
          environ \in {0, EnvFill} :
         lib = [fn |-> "drsh_env", seed |-> seed, environ |-> environ,
                env |-> NewEnvTable(case_insensitive),
                last |-> [k \in {iatom(x) : x \in EnvKeys} \cup EnvKeys
                            |-> NULL],
                got |-> NoGet]

\* drsh_env_init sets the next variable of the process environment to 0
drsh_env_init_set ==
    /\ lib.fn = "drsh_env"
    /\ lib.env.count < lib.environ
    /\ lib' = [lib EXCEPT
                 !.env = EnvSet(lib.env, lib.seed,
                                FillKey(lib.env.count + 1), <<48>>)]
    /\ UNCHANGED notLib

\* drsh_env_init is through with the process environment
EnvInited == lib.fn = "drsh_env" /\ lib.env.count >= lib.environ /\ ~lib.env.fault

\* err = drsh_env_set_env(env, key, value); last remembers the value under
\* the key as the environment compares keys
call_drsh_env_set_env(key, value) ==
    /\ EnvInited
    /\ lib' = [lib EXCEPT
                 !.env = EnvSet(lib.env, lib.seed, key, value),
                 !.last[LKey(lib.env, key)] = value,
                 !.got = NoGet]
    /\ UNCHANGED notLib

\* drsh_env_sort_env(env), also as the first step of drsh_env_get_envp
call_drsh_env_sort_env ==
    /\ EnvInited
    /\ lib' = [lib EXCEPT !.env = drsh_env_sort_env(lib.env, lib.seed),
                          !.got = NoGet]
    /\ UNCHANGED notLib

\* value = drsh_env_get_env(env, key)
call_drsh_env_get_env(key) ==
    /\ EnvInited
    /\ \E ret \in EnvGet(lib.env, lib.seed, key, EnvValues) :
         lib' = [lib EXCEPT !.got = [key |-> key, ret |-> ret]]
    /\ UNCHANGED notLib

NextEnv ==
    \/ drsh_env_init_set
    \/ \E key \in EnvKeys \ {<<122>>}, value \in EnvValues :
         call_drsh_env_set_env(key, value)
    \/ call_drsh_env_sort_env
    \/ \E key \in EnvKeys : call_drsh_env_get_env(key)

SpecEnv == InitEnv /\ [][NextEnv]_vars

----------------------------------------------------------------------------
(* SpecResolve: drsh_env_resolve_prog_path called once, on a program name, *)
(* the values of PATH and PATHEXT and a file system drawn at Init.          *)

MaxPath == 3

\* the values of PATH: unset, or directories b and c and the separator
ResolvePaths(windows_style) ==
    {NULL} \cup SeqsUpTo({98, 99, PathSeparator(windows_style)}, MaxPath)

\* the values of PATHEXT: unset, empty, ".e", ".f;.e" and ".e;"
ResolvePathExts ==
    {NULL, <<>>, <<DOT, 101>>, <<DOT, 102, SEMICOLON, DOT, 101>>,
     <<DOT, 101, SEMICOLON>>}

\* the program names: x, x.E and b/x
ResolvePrograms == {<<120>>, <<120, DOT, 69>>, <<98, SLASH, 120>>}

\* the files there may be: b/x, c/x, b/x.e, b/x.f, c/x.e, b/x.E and, in the
\* working directory, /w/x.e
ResolveFiles ==
    {<<98, SLASH, 120>>, <<99, SLASH, 120>>, <<98, SLASH, 120, DOT, 101>>,
     <<98, SLASH, 120, DOT, 102>>, <<99, SLASH, 120, DOT, 101>>,
     <<98, SLASH, 120, DOT, 69>>, WorkDir \o <<SLASH, 120, DOT, 101>>}

InitResolve ==
    /\ NoProgram
    /\ \E windows_style \in BOOLEAN :
       \E path \in ResolvePaths(windows_style) :
       \E pathexts \in IF windows_style THEN ResolvePathExts ELSE {NULL} :
       \E program \in ResolvePrograms :
       \E files \in SUBSET ResolveFiles :
           lib = [fn |-> "drsh_env_resolve_prog_path",
                  windows_style |-> windows_style, path |-> path,
                  pathexts |-> pathexts, pwd |-> WorkDir,
                  program |-> program, files |-> files,
                  returned |-> FALSE, err |-> EC_OK, tmp |-> NULL]

\* the call of drsh_env_resolve_prog_path
call_drsh_env_resolve_prog_path ==
    /\ lib.fn = "drsh_env_resolve_prog_path"
    /\ ~lib.returned
    /\ lib' = [lib EXCEPT
           !.returned = TRUE,
           !.err = resolve_prog_path(lib.files, lib.path, lib.pathexts,
                       lib.pwd, lib.program, lib.windows_style).err,
           !.tmp = resolve_prog_path(lib.files, lib.path, lib.pathexts,
                       lib.pwd, lib.program, lib.windows_style).tmp]
    /\ UNCHANGED notLib

NextResolve == call_drsh_env_resolve_prog_path

SpecResolve == InitResolve /\ [][NextResolve]_vars

----------------------------------------------------------------------------
(* SpecTokenize: drsh_tokenize_line called once on a line drawn at Init.   *)

MaxTokLine == 4

\* the bytes of the lines: NUL, space, the two quotes, backslash and x
TokenizeBytes == {0, SPACE, 34, 39, BACKSLASH, 120}

InitTokenize ==
    /\ NoProgram
    /\ \E line \in SeqsUpTo(TokenizeBytes, MaxTokLine) :
           lib = [fn |-> "drsh_tokenize_line", line |-> line,
                  returned |-> FALSE, tokens |-> <<>>]

\* the call of drsh_tokenize_line
call_drsh_tokenize_line ==
    /\ lib.fn = "drsh_tokenize_line"
    /\ ~lib.returned
    /\ lib' = [lib EXCEPT !.returned = TRUE,
                          !.tokens = drsh_tokenize_line(lib.line)]
    /\ UNCHANGED notLib

NextTokenize == call_drsh_tokenize_line

SpecTokenize == InitTokenize /\ [][NextTokenize]_vars

----------------------------------------------------------------------------
(* SpecCanon: drsh_canonicalize called on a token, after lines of the set  *)
(* built-in that change the environment.                                   *)

MaxTok == 4

\* the tokens: those of up to MaxTok bytes of '$', X, the two quotes and
\* backslash, the token "\$X", and '~' alone, before a byte or two of '/',
\* backslash and X, and after X
CanonTokens ==
    SeqsUpTo({DOLLAR, 88, 34, 39, BACKSLASH}, MaxTok)
        \cup {<<34, BACKSLASH, DOLLAR, 88, 34>>}
        \cup {<<TILDE>> \o t : t \in SeqsUpTo({SLASH, BACKSLASH, 88}, 2)}
        \cup {<<88, TILDE>>}

\* the variables set and their values: X and HOME, v and /w
CanonKeys == {<<88>>, ATOM_HOME}
CanonValues == {<<118>>, <<SLASH, 119>>}

\* the environment after drsh_env_init: PWD, and HOME as /h or not at all
CanonEnvs ==
    {NewEnv, [vars |-> (ATOM_PWD :> WorkDir), home |-> NULL]}

InitCanon ==
    /\ NoProgram
    /\ \E e \in CanonEnvs, backslash_is_sep \in BOOLEAN :
           lib = [fn |-> "drsh_canonicalize", env |-> e,
                  backslash_is_sep |-> backslash_is_sep,
                  returned |-> FALSE, tok |-> <<>>, atom |-> <<>>]

\* drsh_process_line on a line of the set built-in with a key and a value
process_set(key, value) ==
    /\ lib.fn = "drsh_canonicalize"
    /\ lib' = [lib EXCEPT !.env = drsh_env_set_env(lib.env, key, value),
                          !.returned = FALSE, !.tok = <<>>, !.atom = <<>>]
    /\ UNCHANGED notLib

\* the call of drsh_canonicalize drsh_tokens_to_argv makes for a token
call_drsh_canonicalize(tok) ==
    /\ lib.fn = "drsh_canonicalize"
    /\ ~lib.returned
    /\ lib' = [lib EXCEPT
           !.returned = TRUE,
           !.tok = tok,
           !.atom = drsh_canonicalize(tok, lib.backslash_is_sep, lib.env)]
    /\ UNCHANGED notLib

NextCanon ==
    \/ \E key \in CanonKeys, value \in CanonValues : process_set(key, value)
    \/ \E tok \in CanonTokens : call_drsh_canonicalize(tok)

SpecCanon == InitCanon /\ [][NextCanon]_vars

----------------------------------------------------------------------------
(* SpecCwd: lines of the cd and pwd built-ins, with the drsh_refresh_cwd   *)
(* that drsh_chdir ends with.  getcwd is taken to succeed.                 *)

\* the loop of drsh_dir_condense from offset i up to the last slash: of
\* each component the first byte is kept
RECURSIVE CondenseLoop(_, _, _, _, _)
CondenseLoop(cwd, i, last_slash, want_write, tmp) ==
    IF i >= last_slash
    THEN tmp \o SubSeq(cwd, last_slash + 1, Len(cwd))
    ELSE IF cwd[i + 1] = SLASH
    THEN CondenseLoop(cwd, i + 1, last_slash, TRUE, tmp \o <<SLASH>>)
    ELSE IF want_write
    THEN CondenseLoop(cwd, i + 1, last_slash, FALSE, tmp \o <<cwd[i + 1]>>)
    ELSE CondenseLoop(cwd, i + 1, last_slash, want_write, tmp)

\* the offset of the first or of the last slash of cwd, 0 if it has none
SlashOffset(cwd, first) ==
    IF \A j \in 1..Len(cwd) : cwd[j] # SLASH
    THEN 0
    ELSE (CHOOSE j \in 1..Len(cwd) :
              /\ cwd[j] = SLASH
              /\ \A k \in 1..Len(cwd) :
                   cwd[k] = SLASH => IF first THEN j <= k ELSE k <= j) - 1

\* drsh_dir_condense
drsh_dir_condense(cwd) ==
    IF SlashOffset(cwd, FALSE) = 0
    THEN cwd
    ELSE CondenseLoop(cwd, SlashOffset(cwd, TRUE), SlashOffset(cwd, FALSE),
                      TRUE, SubSeq(cwd, 1, SlashOffset(cwd, TRUE)))

\* the test of drsh_refresh_cwd for a working directory that begins with
\* the home directory: the goto not_match is not taken
HomeMatches(home, wd, backslash_is_sep) ==
    /\ home # NULL
    /\ Len(home) # 0
    /\ Len(wd) >= Len(home)
    /\ SubSeq(wd, 1, Len(home)) = home
    /\ ~ /\ Len(home) < Len(wd)
         /\ wd[Len(home) + 1] # SLASH
         /\ backslash_is_sep /\ wd[Len(home) + 1] # BACKSLASH

\* the working directory with each backslash made a slash
Slashed(wd) ==
    [j \in 1..Len(wd) |-> IF wd[j] = BACKSLASH THEN SLASH ELSE wd[j]]

\* what drsh_refresh_cwd appends to env->cwd after the '~' or the nothing
\* it began with
WdShown(home, wd, backslash_is_sep) ==
    IF backslash_is_sep
    THEN Slashed(IF HomeMatches(home, wd, backslash_is_sep)
                 THEN SubSeq(wd, Len(home) + 1, Len(wd)) ELSE wd)
    ELSE IF HomeMatches(home, wd, backslash_is_sep)
    THEN SubSeq(wd, Len(home) + 1, Len(wd))
    ELSE wd

\* drsh_refresh_cwd with wd the directory getcwd reports: PWD is set to it,
\* and cwd is the text of env->cwd, which the prompt displays
drsh_refresh_cwd(e, wd, backslash_is_sep) ==
    [env |-> drsh_env_set_env(e, ATOM_PWD, wd),
     cwd |-> drsh_dir_condense(
                 (IF HomeMatches(e.home, wd, backslash_is_sep)
                  THEN <<TILDE>> ELSE <<>>)
                 \o WdShown(e.home, wd, backslash_is_sep))]

\* the directories there are: /, /h, /h/a, /hx, /hx/a, /w, /w/a and
\* /h/ab/c, spelled with backslashes on the DOS family
PosixDirs ==
    {<<SLASH>>, <<SLASH, 104>>, <<SLASH, 104, SLASH, 97>>,
     <<SLASH, 104, 120>>, <<SLASH, 104, 120, SLASH, 97>>, <<SLASH, 119>>,
     <<SLASH, 119, SLASH, 97>>, <<SLASH, 104, SLASH, 97, 98, SLASH, 99>>}

Backslashed(d) ==
    [j \in 1..Len(d) |-> IF d[j] = SLASH THEN BACKSLASH ELSE d[j]]

CwdDirs(windows) ==
    IF windows THEN {Backslashed(d) : d \in PosixDirs} ELSE PosixDirs

\* the values of HOME: none, /h, /w and /h/a
PosixHomes ==
    {<<SLASH, 104>>, <<SLASH, 119>>, <<SLASH, 104, SLASH, 97>>}

CwdHomes(windows) ==
    {NULL} \cup (IF windows THEN {Backslashed(d) : d \in PosixHomes}
                 ELSE PosixHomes)

\* the state a call of drsh_refresh_cwd leaves
Refreshed(e, wd) ==
    [fn |-> "drsh_chdir", wd |-> wd,
     env |-> drsh_refresh_cwd(e, wd, IS_WINDOWS).env,
     cwd |-> drsh_refresh_cwd(e, wd, IS_WINDOWS).cwd,
     returned |-> FALSE, printed |-> <<>>]

\* the environment drsh_env_init leaves when HOME is home
HomeEnv(home) ==
    [vars |-> IF home = NULL THEN <<>> ELSE (ATOM_HOME :> home),
     home |-> home]

InitCwd ==
    /\ DecodeIdle
    /\ cmd = NoCmd
    /\ err = EC_OK
    /\ inp = NewInput
    /\ ts = NewTermState
    /\ IS_WINDOWS \in BOOLEAN
    /\ outbuf = <<>>
    /\ rl_pc = "idle"
    /\ env = NewEnv
    /\ MainAtRest
    /\ \E home \in CwdHomes(IS_WINDOWS), wd \in CwdDirs(IS_WINDOWS) :
           lib = Refreshed(HomeEnv(home), wd)

\* drsh_process_line on a line of the cd built-in with one argument:
\* drsh_chdir changes to the directory if there is one, and refreshes
process_cd(arg) ==
    /\ lib.fn = "drsh_chdir"
    /\ lib' = Refreshed(lib.env,
                        IF arg \in CwdDirs(IS_WINDOWS) THEN arg ELSE lib.wd)
    /\ UNCHANGED notLib

\* drsh_process_line on a line of the pwd built-in
process_pwd ==
    /\ lib.fn = "drsh_chdir"
    /\ lib' = [lib EXCEPT
           !.returned = TRUE,
           !.printed = IF drsh_env_get_env(lib.env, ATOM_pwd) # NULL
                       THEN drsh_env_get_env(lib.env, ATOM_pwd) \o <<CR, LF>>
                       ELSE <<>>]
    /\ UNCHANGED notLib

NextCwd ==
    \/ \E arg \in CwdDirs(IS_WINDOWS) \cup {<<SLASH, 110>>} : process_cd(arg)
    \/ process_pwd

SpecCwd == InitCwd /\ [][NextCwd]_vars

----------------------------------------------------------------------------
(* SpecRedisplay: the redisplay at the head of drsh_read_line's loop, on a *)
(* terminal, with the bytes it writes and the n_cols_up it keeps.  A step  *)
(* is one turn of the loop: a command and the redisplay that follows it.   *)

\* most bytes the line shown grows to
MaxShown == 3

\* sprintf("%d") of a number that is not negative
RECURSIVE Decimal(_)
Decimal(n) ==
    IF n < 10 THEN <<DIGIT_0 + n>>
    ELSE Decimal(n \div 10) \o <<DIGIT_0 + (n % 10)>>

\* "\033[%d" and the byte that ends the sequence
Csi(n, final) == <<ESC, LBRACKET>> \o Decimal(n) \o <<final>>

\* what strftime("%m/%d %l:%M%p ") gives at two minutes of a morning
PromptTimes ==
    {<<49, 49, SLASH, 48, 50, SPACE, SPACE, 57, 58, 48, 53, 65, 77, SPACE>>,
     <<49, 49, SLASH, 48, 50, SPACE, SPACE, 57, 58, 48, 54, 65, 77, SPACE>>}

\* drsh_refresh_prompt: the colour, the time, the colour, the cwd, the
\* colour and "> ", the reset; the 25 bytes of the sequences are not visual
drsh_refresh_prompt(time, cwd) ==
    LET prompt == <<ESC, LBRACKET, 51, 54, 109>> \o time
                    \o <<ESC, LBRACKET, 51, 50, 109>> \o cwd
                    \o <<ESC, LBRACKET, 51, 56, 59, 53, 59, 50, 52, 56, 109,
                         62, SPACE>>
                    \o <<ESC, LBRACKET, 48, 109>>
    IN  [prompt |-> prompt, prompt_visual_len |-> Len(prompt) - 25]

\* the n_cols_up the redisplay stores without the subtraction of diff
ColsUp_M(total_lines, cursor_line) == total_lines - 1

\* n_cols_up = total_lines - 1, less diff when the cursor is above the
\* last line
ColsUp(total_lines, cursor_line) ==
    IF total_lines > cursor_line
    THEN (total_lines - 1) - (total_lines - cursor_line)
    ELSE total_lines - 1

\* the n_cols_up that is added to the stored one
NextColsUp_M(n_cols_up, total_lines, cursor_line) ==
    n_cols_up + ColsUp(total_lines, cursor_line)

\* the n_cols_up the redisplay leaves for the next one
NextColsUp(n_cols_up, total_lines, cursor_line) ==
    ColsUp(total_lines, cursor_line)

\* the bytes the redisplay composes in termbuff and the n_cols_up it leaves
Emitted(i, prompt, prompt_visual_len, cols, n_cols_up) ==
    LET visual_size == prompt_visual_len + Len(i.write_buffer)
        cursor_visual_position ==
            visual_size - (Len(i.write_buffer) - i.write_cursor)
        total_lines == ((visual_size - 1) \div cols) + 1
        cursor_line == ((cursor_visual_position - 1) \div cols) + 1
        cur_col == ((cursor_visual_position - 1) % cols) + 1
    IN  [termbuff |->
             (IF i.needs_clear_screen
              THEN <<ESC, LBRACKET, 50, 74, ESC, LBRACKET, 49, 59, 49, 72>>
              ELSE <<>>)
               \o (IF n_cols_up # 0 THEN Csi(n_cols_up, 65) ELSE <<>>)
               \o <<CR, ESC, LBRACKET, 74>>
               \o prompt
               \o i.write_buffer
               \o (IF total_lines > cursor_line
                   THEN Csi(total_lines - cursor_line, 65) ELSE <<>>)
               \o <<CR>> \o Csi(cur_col, 67),
         n_cols_up |-> NextColsUp(n_cols_up, total_lines, cursor_line)]

\* the head of the loop with the DrshInput i: when needs_redisplay is set
\* the size and the prompt are refreshed and the line is written; steady
\* counts, up to 2, the redisplays before this one in a row at which the
\* line, the cursor, the prompt and the width were as they are at this one
HeadOfLoop(l, i, cols, time) ==
    IF ~i.needs_redisplay THEN [l EXCEPT !.inp = i]
    ELSE LET p == drsh_refresh_prompt(time, l.cwd)
             e == Emitted(i, p.prompt, p.prompt_visual_len, cols, l.n_cols_up)
         IN  [l EXCEPT
                !.inp = [i EXCEPT !.needs_clear_screen = FALSE,
                                  !.needs_redisplay = FALSE],
                !.cols = cols,
                !.prompt = p.prompt,
                !.prompt_visual_len = p.prompt_visual_len,
                !.termbuff = e.termbuff,
                !.n_cols_up = e.n_cols_up,
                !.cleared = i.needs_clear_screen,
                !.steady = IF /\ l.termbuff # <<>>
                              /\ i.write_buffer = l.inp.write_buffer
                              /\ i.write_cursor = l.inp.write_cursor
                              /\ p.prompt = l.prompt
                              /\ cols = l.cols
                           THEN IF l.steady = 0 THEN 1 ELSE 2
                           ELSE 0]

\* the widths drsh_refresh_size finds
TermCols == {9, 18}

\* the keys of this specification: the byte 'a' and what moves, deletes,
\* clears the screen, does nothing and accepts
RedisplayCmds ==
    {97, CMD_MOVE_LEFT, CMD_MOVE_HOME, CMD_MOVE_END, CMD_DELETE_BACK,
     CMD_CLEAR_SCREEN, CMD_CTRL_G, CMD_ACCEPT}

InitRedisplay ==
    /\ NoProgram
    /\ \E cols \in TermCols :
         lib = [fn |-> "drsh_read_line", pc |-> "enter", inp |-> NewInput,
                cwd |-> <<TILDE>>, cols |-> cols, prompt |-> <<62, SPACE>>,
                prompt_visual_len |-> 2, termbuff |-> <<>>, n_cols_up |-> 0,
                cleared |-> FALSE, steady |-> 0]

\* drsh_read_line from its entry to its first drsh_read_one
redisplay_enter ==
    /\ lib.fn = "drsh_read_line"
    /\ lib.pc = "enter"
    /\ \E cols \in TermCols, time \in PromptTimes :
         lib' = HeadOfLoop([lib EXCEPT !.pc = "read", !.termbuff = <<>>,
                                       !.n_cols_up = 0, !.steady = 0],
                           [lib.inp EXCEPT !.write_buffer = <<>>,
                                           !.needs_redisplay = TRUE,
                                           !.write_cursor = 0],
                           cols, time)
    /\ UNCHANGED notLib

\* one turn of the loop: drsh_read_one yields c, the switch handles it and
\* the head of the loop redisplays; an accepted line ends the call
redisplay_turn(c) ==
    /\ lib.fn = "drsh_read_line"
    /\ lib.pc = "read"
    /\ LET r == drsh_read_line_switch(lib.inp, c) IN
         /\ Len(r.inp.write_buffer) <= MaxShown
         /\ IF r.returns
            THEN lib' = [lib EXCEPT !.inp = r.inp, !.pc = "enter"]
            ELSE \E cols \in TermCols, time \in PromptTimes :
                   lib' = HeadOfLoop(lib, r.inp, cols, time)
    /\ UNCHANGED notLib

NextRedisplay ==
    \/ redisplay_enter
    \/ \E c \in RedisplayCmds : redisplay_turn(c)

SpecRedisplay == InitRedisplay /\ [][NextRedisplay]_vars

----------------------------------------------------------------------------
(* SpecDispatch: drsh_process_line called once on a line drawn at Init, as *)
(* far as the built-in it runs, the program it resolves and spawns, and    *)
(* the formats of what it writes to the terminal.                          *)

\* longest line of blanks, line ends and 'x' tried
MaxDispatch == 3

\* the bytes of those lines: space, tab, CR, LF and 'x'
DispatchBytes == {SPACE, 9, CR, LF, 120}

\* the lines with a built-in's word first: "cd", "cd a", "echo", "echo x",
\* "exit", "pwd", "set", "set x y", "debug", "debug on", "debug 0",
\* "time", "time x", "time y", "source" and "y"
BuiltinLines ==
    {ATOM_cd, ATOM_cd \o <<SPACE, 97>>, ATOM_echo, ATOM_echo \o <<SPACE, 120>>,
     ATOM_exit, ATOM_pwd, ATOM_set, ATOM_set \o <<SPACE, 120, SPACE, 121>>,
     ATOM_debug, ATOM_debug \o <<SPACE, 111, 110>>,
     ATOM_debug \o <<SPACE, 48>>, ATOM_time, ATOM_time \o <<SPACE, 120>>,
     ATOM_time \o <<SPACE, 121>>, ATOM_source, <<121>>}

\* the words debug takes for on and for off: on, true, 1; off, false, 0
DebugOn == {<<111, 110>>, <<116, 114, 117, 101>>, <<49>>}
DebugOff == {<<111, 102, 102>>, <<102, 97, 108, 115, 101>>, <<48>>}

\* what drsh_process_line has done when it returns, or when it has a
\* program to spawn: the branch it ran, the environment, the directory, the
\* debug flag, the formats of its drsh_ts_printf and drsh_ts_write calls in
\* order, whether drsh_env_resolve_prog_path was called, and whether a
\* program waits to be spawned
Dispatched(l, ran, e, files, debug, printed, resolve, spawn, ec) ==
    [l EXCEPT !.pc = IF spawn THEN "spawn" ELSE "returned", !.ran = ran,
              !.env = e, !.fs = files,
              !.debug = debug, !.printed = printed, !.resolve = resolve,
              !.spawn = spawn, !.err = ec]

\* drsh_spawn_process_and_wait as far as the resolution, and the "error"
\* drsh_process_line prints where it fails
DispatchSpawn(l, ran, argv) ==
    IF argv[1] = NULL
    THEN Dispatched(l, ran, l.env, l.fs, l.debug, <<"error\r\n">>, FALSE,
                    FALSE, EC_OK)
    ELSE IF drsh_env_resolve_prog_path(argv[1]) # EC_OK
    THEN Dispatched(l, ran, l.env, l.fs, l.debug,
                    <<"Unable to resolve program path for '%s'\r\n",
                      "error\r\n">>, TRUE, FALSE, EC_OK)
    ELSE Dispatched(l, ran, l.env, l.fs, l.debug, <<>>, TRUE, TRUE, EC_OK)

\* drsh_process_line on l.line
drsh_process_line(l) ==
    LET line == l.line
        argv == drsh_tokens_to_argv(drsh_tokenize_line(line))
        first == argv[1]
        same(ran, printed, ec) ==
            Dispatched(l, ran, l.env, l.fs, l.debug, printed, FALSE, FALSE,
                       ec)
    IN  IF Len(line) = 1 /\ line[1] \in {CR, LF}
        THEN same("line end", <<>>, EC_OK)
        ELSE IF first = ATOM_cd
        THEN LET r == drsh_chdir(l.fs, l.env, argv) IN
             Dispatched(l, "cd", r.env, r.fs, l.debug, <<>>, FALSE, FALSE,
                        EC_OK)
        ELSE IF first = ATOM_echo
        THEN same("echo", [k \in 1..(Len(argv) - 2) |-> "%s "] \o <<"\r\n">>,
                  EC_OK)
        ELSE IF first = ATOM_exit
        THEN same("exit", <<>>, EC_EXIT)
        ELSE IF first = ATOM_pwd
        THEN same("pwd", IF drsh_env_get_env(l.env, ATOM_pwd) # NULL
                         THEN <<"%s\r\n">> ELSE <<>>, EC_OK)
        ELSE IF first = ATOM_set
        THEN LET listing ==
                     IF Len(argv) = 2
                     THEN [k \in 1..Cardinality(DOMAIN l.env.vars) |->
                             IF IS_WINDOWS THEN "%s (%s)=%s\r\n"
                             ELSE "%s=%s\r\n"]
                     ELSE <<>>
             IN  IF Len(argv) = 4 /\ Len(argv[2]) # 0
                 THEN Dispatched(l, "set",
                                 drsh_env_set_env(l.env, argv[2], argv[3]),
                                 l.fs, l.debug, listing, FALSE, FALSE, EC_OK)
                 ELSE same("set", listing, EC_OK)
        ELSE IF first = ATOM_debug
        THEN IF Len(argv) > 2
             THEN Dispatched(l, "debug", l.env, l.fs,
                             IF argv[2] \in DebugOn THEN TRUE
                             ELSE IF argv[2] \in DebugOff THEN FALSE
                             ELSE l.debug,
                             <<>>, FALSE, FALSE, EC_OK)
             ELSE same("debug", <<"debug = %s\r\n">>, EC_OK)
        ELSE IF first \in {ATOM_source, ATOM_DOT}
        THEN same("source", <<>>, EC_OK)
        ELSE IF first = ATOM_time
        THEN IF Len(argv) > 2
             THEN DispatchSpawn(l, "time", Tail(argv))
             ELSE same("time", <<>>, EC_OK)
        ELSE DispatchSpawn(l, "spawn", argv)

InitDispatch ==
    /\ NoProgram
    /\ \E line \in SeqsUpTo(DispatchBytes, MaxDispatch) \cup BuiltinLines,
          debug \in BOOLEAN :
         lib = [fn |-> "drsh_process_line", pc |-> "called", line |-> line,
                ran |-> "none", env |-> NewEnv, fs |-> [cwd |-> WorkDir],
                ts |-> [state |-> TS_RAW, in_is_terminal |-> TRUE,
                        out_is_terminal |-> TRUE],
                debug |-> debug, printed |-> <<>>, resolve |-> FALSE,
                spawn |-> FALSE, err |-> EC_OK]

\* err = drsh_process_line(&input_line, ...), up to the spawning
call_drsh_process_line ==
    /\ lib.fn = "drsh_process_line"
    /\ lib.pc = "called"
    /\ lib' = drsh_process_line(lib)
    /\ UNCHANGED notLib

\* what drsh_spawn_process_and_wait prints where env->debug is set: the
\* program, and the command line or each argument
SpawnDebug(argv) ==
    <<"spawning '%s'\r\n">> \o
    (IF IS_WINDOWS THEN <<"cmd '%s'\r\n">>
     ELSE [k \in 1..(Len(argv) - 1) |-> "argv[%d] '%s'\r\n"])

\* drsh_spawn_process_and_wait after the resolution: drsh_ts_orig, the
\* spawning, which succeeds or not, drsh_ts_unknown, the wait and the
\* times; drsh_process_line prints "error" where it returns an error
dispatch_spawn ==
    /\ lib.fn = "drsh_process_line"
    /\ lib.pc = "spawn"
    /\ \E syscall_ok \in BOOLEAN, spawned \in BOOLEAN :
         LET argv == drsh_tokens_to_argv(drsh_tokenize_line(lib.line))
             r == drsh_ts_orig(lib.ts, syscall_ok)
             debug == IF lib.debug THEN SpawnDebug(SpawnArgv(argv)) ELSE <<>>
         IN  IF r.err # EC_OK /\ ~IS_WINDOWS
             THEN lib' = [lib EXCEPT !.pc = "returned", !.ts = r.ts,
                                     !.printed = <<"error\r\n">>]
             ELSE lib' = [lib EXCEPT
                    !.pc = "returned",
                    !.ts = drsh_ts_unknown(r.ts).ts,
                    !.printed =
                       debug \o
                       (IF ~spawned
                        THEN IF IS_WINDOWS THEN <<"error\r\n">>
                             ELSE <<"\r%s\r\n">>
                        ELSE IF lib.ran = "time" /\ ~IS_WINDOWS
                        THEN <<"user   time: %lds%ldus\r\n",
                               "system time: %lds%ldus\r\n">>
                        ELSE <<>>)]
    /\ UNCHANGED notLib

NextDispatch ==
    \/ call_drsh_process_line
    \/ dispatch_spawn

SpecDispatch == InitDispatch /\ [][NextDispatch]_vars

----------------------------------------------------------------------------
(* Claims about the input decoder.                                         *)

\* the final bytes of the recognised ESC [ sequences: A B C D H F Z
CsiFinals == {65, 66, 67, 68, 72, 70, 90}

\* the unread bytes begin with ESC '[' and a byte that neither starts nor
\* completes a recognised sequence
DisprovedPrefix(u) ==
    /\ Len(u) >= 3
    /\ u[1] = ESC
    /\ u[2] = LBRACKET
    /\ u[3] \notin CsiFinals \cup {DIGIT_3}

\* C6: the decoder never waits on an escape prefix that later bytes have
\* disproved.  drsh_rb_to_cmd reads at most the first four unread bytes, so a
\* drsh_read_one that goes back to its blocking read with such a prefix
\* unread can never yield a command again: the claim requires that this
\* state is never reached.
C6_NoWaitOnDisprovedPrefix ==
    dec_pc = "read" => ~DisprovedPrefix(Unread)

\* once drsh_read_one waits on a disproved prefix no step yields a command
C6_StallIsPermanent ==
    [][(dec_pc \in {"top", "read"} /\ DisprovedPrefix(Unread))
         => (~(dec_pc' = "ret" /\ err' = EC_OK) /\ DisprovedPrefix(Unread'))]_vars

\* the buffers that hold only the beginning of a recognised sequence
IncompleteSequence(rb) ==
    rb \in {<<ESC, LBRACKET>>, <<ESC, LETTER_O>>, <<ESC, LBRACKET, DIGIT_3>>}

\* the decoding table as the claim states it
ClaimedDecoding(rb) ==
    LET c == rb[1]
        n == Len(rb) IN
    IF c >= 1 /\ c <= 26 THEN Decoded(1, -c)
    ELSE IF c = DEL THEN Decoded(1, CMD_DELETE_BACK)
    ELSE IF c # ESC THEN Decoded(1, c)
    ELSE IF n >= 3 /\ rb[2] = LBRACKET /\ rb[3] = 65 THEN Decoded(3, CMD_MOVE_UP)
    ELSE IF n >= 3 /\ rb[2] = LBRACKET /\ rb[3] = 66 THEN Decoded(3, CMD_MOVE_DOWN)
    ELSE IF n >= 3 /\ rb[2] = LBRACKET /\ rb[3] = 67 THEN Decoded(3, CMD_MOVE_RIGHT)
    ELSE IF n >= 3 /\ rb[2] = LBRACKET /\ rb[3] = 68 THEN Decoded(3, CMD_MOVE_LEFT)
    ELSE IF n >= 3 /\ rb[2] = LBRACKET /\ rb[3] = 72 THEN Decoded(3, CMD_MOVE_HOME)
    ELSE IF n >= 3 /\ rb[2] = LBRACKET /\ rb[3] = 70 THEN Decoded(3, CMD_MOVE_END)
    ELSE IF n >= 3 /\ rb[2] = LBRACKET /\ rb[3] = 90 THEN Decoded(3, CMD_SHIFT_TAB)
    ELSE IF n >= 4 /\ rb[2] = LBRACKET /\ rb[3] = DIGIT_3 /\ rb[4] = TILDE
         THEN Decoded(4, CMD_DELETE_FORWARD)
    ELSE IF n >= 3 /\ rb[2] = LETTER_O /\ rb[3] = 72 THEN Decoded(3, CMD_MOVE_HOME)
    ELSE IF n >= 3 /\ rb[2] = LETTER_O /\ rb[3] = 70 THEN Decoded(3, CMD_MOVE_END)
    ELSE Decoded(1, CMD_ESC)

\* a command code >= 0 is what drsh_read_line inserts as a literal byte
PassedAsLiteral(rb) == len = 1 /\ cmd = rb[1]

\* C7: on a buffer that holds a whole sequence drsh_rb_to_cmd yields what the
\* decoding table says, and the first byte is passed through as a literal
\* exactly when it is >= 0x1B, not 0x7F and not ESC
C7_DecodingTable ==
    (dec_pc = "applied" /\ ~IncompleteSequence(read_buffer)) =>
        /\ read_buffer[1] # 0 =>
             (len = ClaimedDecoding(read_buffer).len
                /\ cmd = ClaimedDecoding(read_buffer).cmd)
        /\ PassedAsLiteral(read_buffer) <=>
             (read_buffer[1] >= 27 /\ read_buffer[1] # DEL /\ read_buffer[1] # ESC)

\* the unread bytes are exactly the first two bytes of a recognised sequence
SequencePrefix(u) == u \in {<<ESC, LBRACKET>>, <<ESC, LETTER_O>>}

\* C30: when the bytes drsh_read_one decodes are exactly ESC '[' (or ESC 'O')
\* the decoder yields no command and goes back to its blocking read, so that
\* an arrow key arriving as (ESC '[') then ('A') becomes the one command UP
C30_PrefixWaitsForMore ==
    [][(dec_pc \in {"top", "read"}
          /\ SequencePrefix(Shifted(read_buffer', read_cursor)))
         => ~(dec_pc' = "ret" /\ err' = EC_OK)]_vars

----------------------------------------------------------------------------
(* Claims about the line editor.                                           *)

\* C8: after any sequence of editing commands handled by drsh_read_line the
\* write cursor lies inside the write buffer:
\* 0 <= write_cursor <= write_buffer.count
C8_CursorContained ==
    inp.write_cursor >= 0 /\ inp.write_cursor <= Len(inp.write_buffer)

\* a completion candidate has replaced the token left of a cursor that
\* stands inside the line
C8_CompletionInsideLine ==
    /\ rl_pc = "read"
    /\ inp.tab_completion
    /\ inp.tab_completion_cursor > 0
    /\ inp.write_cursor > 0
    /\ inp.write_cursor < Len(inp.write_buffer)

\* what the claim says a CMD_MOVE_UP leaves
UpAsClaimed ==
    LET h == inp.hist_cursor IN
    IF h > 0
    THEN /\ inp'.hist_cursor = h - 1
         /\ inp'.write_buffer = inp.hist_buffer[h]
         /\ inp'.write_cursor = Len(inp.hist_buffer[h])
    ELSE /\ inp'.hist_cursor = 0
         /\ inp'.write_buffer = inp.write_buffer
         /\ inp'.write_cursor = inp.write_cursor

\* what the claim says a CMD_MOVE_DOWN leaves
DownAsClaimed ==
    LET h == inp.hist_cursor
        n == Len(inp.hist_buffer)
        to == IF h + 1 < n THEN h + 1 ELSE n
    IN  /\ inp'.hist_cursor = to
        /\ IF to < n
           THEN /\ inp'.write_buffer = inp.hist_buffer[to + 1]
                /\ inp'.write_cursor = Len(inp.hist_buffer[to + 1])
           ELSE /\ inp'.write_buffer = <<>>
                /\ inp'.write_cursor = 0

\* C9: UP with a history cursor > 0 decrements it and loads that entry with
\* the write cursor at its end, UP at 0 changes nothing; DOWN increments the
\* cursor clamped to the history length and loads the addressed entry, or
\* empties the line when the cursor reaches the length; the history cursor
\* never exceeds the history length, drsh_hist_add included
C9_HistoryNavigation ==
    /\ [](inp.hist_cursor <= Len(inp.hist_buffer))
    /\ [][/\ drsh_read_line_command(CMD_MOVE_UP) => UpAsClaimed
          /\ drsh_read_line_command(CMD_MOVE_DOWN) => DownAsClaimed]_vars

\* navigation has loaded an entry that is neither the first nor past the end
C9_EntryLoaded ==
    /\ rl_pc = "read"
    /\ inp.hist_cursor > 0
    /\ inp.hist_cursor < Len(inp.hist_buffer)
    /\ inp.write_buffer = inp.hist_buffer[inp.hist_cursor + 1]
    /\ inp.write_cursor = Len(inp.write_buffer)

\* the write buffer without the byte at offset k, or as it is when k is its end
WithoutByteAt(b, k) ==
    IF k < Len(b)
    THEN [j \in 1..(Len(b) - 1) |-> IF j <= k THEN b[j] ELSE b[j + 1]]
    ELSE b

\* C10: CTRL-D makes drsh_read_line return EC_EOF exactly when the write
\* buffer is empty; otherwise it does what DELETE_FORWARD does, removing the
\* byte at the cursor or nothing at the end, and the editing goes on
C10_CtrlD ==
    [][drsh_read_line_command(CMD_DELETE_FORWARD_OR_EOF) =>
         /\ (rl_pc' = "returned") <=> (Len(inp.write_buffer) = 0)
         /\ (rl_pc' = "returned") => (err' = EC_EOF)
         /\ Len(inp.write_buffer) # 0 =>
              /\ rl_pc' = "read"
              /\ inp'.write_cursor = inp.write_cursor
              /\ inp'.write_buffer =
                   WithoutByteAt(inp.write_buffer, inp.write_cursor)
              /\ inp' = Redisplay(
                     drsh_read_line_switch(inp, CMD_DELETE_FORWARD).inp, ts)]_vars

\* CTRL-D on the empty line of a session with a history: EC_EOF is returned
C10_EofReturned ==
    /\ rl_pc = "returned"
    /\ err = EC_EOF
    /\ Len(inp.write_buffer) = 0
    /\ Len(inp.hist_buffer) > 0

\* the candidate a completion run shows: the text of the candidate at the
\* candidate cursor
ShownCandidate(i) == i.tab_completions[i.tab_completion_cursor + 1].a

\* the basename drsh_parse_completable_token finds left of the write cursor
TypedBasename(i) ==
    drsh_parse_completable_token(
        SubSeq(i.write_buffer, 1, i.write_cursor), IS_WINDOWS).basename

\* the line i with the n bytes left of its cursor replaced by text
WithBasename(i, n, text) ==
    SubSeq(i.write_buffer, 1, i.write_cursor - n) \o text
        \o SubSeq(i.write_buffer, i.write_cursor + 1, Len(i.write_buffer))

\* what the claim says one TAB leaves: the first TAB builds a list whose
\* candidate 0 is the typed basename, every TAB moves the candidate cursor
\* one step round the list and puts that candidate in the basename's place
TabAsClaimed ==
    LET was == inp.tab_completion
        cur == IF was THEN ShownCandidate(inp) ELSE TypedBasename(inp)
        k == IF was THEN inp.tab_completion_cursor ELSE 0
        N == Len(inp'.tab_completions)
    IN  /\ inp'.tab_completion
        /\ N >= 1
        /\ was => inp'.tab_completions = inp.tab_completions
        /\ ~was => inp'.tab_completions[1].a = cur
        /\ inp'.tab_completion_cursor = (k + 1) % N
        /\ inp'.write_buffer = WithBasename(inp, Len(cur), ShownCandidate(inp'))
        /\ inp'.write_cursor =
             inp.write_cursor - Len(cur) + Len(ShownCandidate(inp'))

\* C11: the first TAB builds a list of N candidates with the typed basename
\* at index 0, and after k >= 1 consecutive TABs the basename portion of the
\* write buffer is candidate (k mod N), so N TABs bring the write buffer and
\* the write cursor back to what the user typed
C11_CyclicCompletion ==
    /\ [](inp.tab_completion =>
            /\ inp.tab_completion_cursor < Len(inp.tab_completions)
            /\ Len(ShownCandidate(inp)) <= inp.write_cursor
            /\ SubSeq(inp.write_buffer,
                      inp.write_cursor - Len(ShownCandidate(inp)) + 1,
                      inp.write_cursor) = ShownCandidate(inp))
    /\ [][drsh_read_line_command(CMD_TAB) => TabAsClaimed]_vars

\* a run of TABs over three candidates or more has come back to candidate
\* 0, which stands left of the cursor again
C11_CycleClosed ==
    /\ rl_pc = "read"
    /\ inp.tab_completion
    /\ Len(inp.tab_completions) >= 3
    /\ inp.tab_completion_cursor = 0
    /\ inp.write_cursor = Len(inp.tab_completions[1].a)
    /\ SubSeq(inp.write_buffer, 1, inp.write_cursor) = inp.tab_completions[1].a

\* the longest run of TABs that is followed by an ESC
MaxTabs == 6

\* the input after k commands CMD_TAB handled by drsh_read_line
RECURSIVE Tabs(_, _)
Tabs(i, k) ==
    IF k = 0 THEN i
    ELSE Tabs(drsh_read_line_switch(i, CMD_TAB).inp, k - 1)

\* the input after k commands CMD_TAB and one CMD_ESC
TabsThenEsc(i, k) == drsh_read_line_switch(Tabs(i, k), CMD_ESC).inp

\* the input r has the line of i and is out of completion mode
SameLine(i, r) ==
    /\ ~r.tab_completion
    /\ r.write_buffer = i.write_buffer
    /\ r.write_cursor = i.write_cursor

\* TAB^k ESC has restored the line of i
Restored(i, k) == SameLine(i, TabsThenEsc(i, k))

\* C12: ESC while tab completion is active replaces the candidate shown
\* with candidate 0 and leaves completion mode, so TAB^k ESC restores the
\* write buffer and the write cursor for every k >= 1; ESC while completion
\* is inactive changes nothing
C12_EscCancels ==
    /\ []((rl_pc = "read" /\ ~inp.tab_completion) =>
            \A k \in 1..MaxTabs : Restored(inp, k))
    /\ [][drsh_read_line_command(CMD_ESC) =>
            IF inp.tab_completion
            THEN /\ ~inp'.tab_completion
                 /\ inp'.write_buffer =
                      WithBasename(inp, Len(ShownCandidate(inp)),
                                   inp.tab_completions[1].a)
                 /\ inp'.write_cursor =
                      inp.write_cursor - Len(ShownCandidate(inp))
                        + Len(inp.tab_completions[1].a)
            ELSE inp' = inp]_vars

\* two TABs have changed a line with text on both sides of the cursor, and
\* the ESC after them brings it back
C12_EscRestores ==
    /\ rl_pc = "read"
    /\ ~inp.tab_completion
    /\ inp.write_cursor > 0
    /\ inp.write_cursor < Len(inp.write_buffer)
    /\ Tabs(inp, 2).tab_completion
    /\ Tabs(inp, 2).write_buffer # inp.write_buffer
    /\ TabsThenEsc(inp, 2).write_buffer = inp.write_buffer

\* the DrshInput r that a command left changes the bytes of the line or the
\* cursor of i
Edits(i, r) ==
    r.write_buffer # i.write_buffer \/ r.write_cursor # i.write_cursor

\* C33: whenever drsh_read_line waits for a command, each command it can get
\* that changes the write buffer or write_cursor leaves needs_redisplay set
\* when it returns to the head of the loop, where the redisplay then
\* happens: TAB, SHIFT_TAB, ESC, UP and DOWN included
C33_EditsNeedRedisplay ==
    rl_pc = "read" =>
        \A c \in EditCmds :
            LET r == drsh_read_line_switch(inp, c).inp IN
            Edits(inp, r) => r.needs_redisplay

\* on a terminal, after a redisplay, a TAB has put the second candidate in
\* the line and the redisplay that followed has shown it
C33_TabRedisplayed ==
    /\ rl_pc = "read"
    /\ ts.in_is_terminal
    /\ ts.out_is_terminal
    /\ inp.tab_completion
    /\ inp.tab_completion_cursor = 1
    /\ inp.write_buffer # <<>>
    /\ ~inp.needs_redisplay

\* the arithmetic of the redisplay as the specification states it, on the
\* line, the prompt and the width of the last redisplay
VisualSize == lib.prompt_visual_len + Len(lib.inp.write_buffer)
CursorVisualPosition ==
    VisualSize - (Len(lib.inp.write_buffer) - lib.inp.write_cursor)
TotalLines == ((VisualSize - 1) \div lib.cols) + 1
CursorLine == ((CursorVisualPosition - 1) \div lib.cols) + 1

\* C34: after each redisplay the stored n_cols_up, which the next redisplay
\* uses, equals total_lines - cursor_line
C34_ColsUpIsLinesBelow ==
    (lib.fn = "drsh_read_line" /\ lib.pc = "read") =>
        lib.n_cols_up = TotalLines - CursorLine

\* C34 as amended: after each redisplay the stored n_cols_up equals
\* cursor_line - 1, the number of rows the cursor is below the top row of
\* the prompt
C34_ColsUpIsLinesAbove ==
    (lib.fn = "drsh_read_line" /\ lib.pc = "read") =>
        lib.n_cols_up = CursorLine - 1

\* the line takes three rows and the cursor was left on the second
C34_CursorOnSecondOfThree ==
    /\ lib.fn = "drsh_read_line"
    /\ lib.pc = "read"
    /\ TotalLines = 3
    /\ CursorLine = 2
    /\ lib.n_cols_up = 1

\* the line, the cursor, the prompt and the width are the same before and
\* after a turn of the loop
SameShown ==
    /\ lib.pc = "read"
    /\ lib'.pc = "read"
    /\ lib.termbuff # <<>>
    /\ lib'.inp.write_buffer = lib.inp.write_buffer
    /\ lib'.inp.write_cursor = lib.inp.write_cursor
    /\ lib'.prompt = lib.prompt
    /\ lib'.cols = lib.cols

BeforeRegion(i, n) == SubSeq(i.write_buffer, 1, i.write_cursor - n)

\* the bytes of the line i from its cursor on
AfterCursor(i) == Shifted(i.write_buffer, i.write_cursor)

\* the candidate that stands left of the cursor once a TAB, SHIFT_TAB or ESC
\* has been handled: the selected one, or candidate 0 after the cancel
RegionAfter ==
    IF inp'.tab_completion THEN ShownCandidate(inp')
    ELSE inp.tab_completions[1].a

\* C36: while tab completion is active the candidate list is not empty,
\* tab_completion_cursor is an index into it and the bytes left of
\* write_cursor are the selected candidate; TAB, SHIFT_TAB and ESC change
\* only those bytes: what precedes them and what follows write_cursor stays
C36_CompletionRegion ==
    /\ [](inp.tab_completion =>
            /\ inp.tab_completions # <<>>
            /\ inp.tab_completion_cursor \in 0..(Len(inp.tab_completions) - 1)
            /\ inp.write_cursor >= Len(ShownCandidate(inp))
            /\ AfterCursor([inp EXCEPT !.write_buffer =
                                SubSeq(@, 1, inp.write_cursor),
                            !.write_cursor =
                                @ - Len(ShownCandidate(inp))])
                 = ShownCandidate(inp))
    /\ [][\A c \in {CMD_TAB, CMD_SHIFT_TAB, CMD_ESC} :
            (drsh_read_line_command(c) /\ inp.tab_completion) =>
               /\ BeforeRegion(inp', Len(RegionAfter))
                    = BeforeRegion(inp, Len(ShownCandidate(inp)))
               /\ AfterCursor(inp') = AfterCursor(inp)]_vars

\* the last of three or more candidates is selected, and bytes of the line
\* precede it
C36_LastCandidateAfterText ==
    /\ rl_pc = "read"
    /\ inp.tab_completion
    /\ Len(inp.tab_completions) >= 3
    /\ inp.tab_completion_cursor = Len(inp.tab_completions) - 1
    /\ inp.write_cursor > Len(ShownCandidate(inp))

\* the input after the commands TAB and SHIFT_TAB, in this order and in the
\* other
TabShiftTab(i) ==
    drsh_read_line_switch(drsh_read_line_switch(i, CMD_TAB).inp,
                          CMD_SHIFT_TAB).inp
ShiftTabTab(i) ==
    drsh_read_line_switch(drsh_read_line_switch(i, CMD_SHIFT_TAB).inp,
                          CMD_TAB).inp

\* the line, the write cursor and the candidate cursor of r are those of i
SameSelection(i, r) ==
    /\ r.write_buffer = i.write_buffer
    /\ r.write_cursor = i.write_cursor
    /\ r.tab_completion_cursor = i.tab_completion_cursor

\* C37: while tab completion is active, TAB then SHIFT_TAB, and SHIFT_TAB
\* then TAB, leave the write buffer, write_cursor and tab_completion_cursor
\* as they were, also where the candidate cursor wraps between the last
\* candidate and candidate 0
C37_ShiftTabInvertsTab ==
    (rl_pc = "read" /\ inp.tab_completion) =>
        /\ SameSelection(inp, TabShiftTab(inp))
        /\ SameSelection(inp, ShiftTabTab(inp))
        /\ TabShiftTab(inp).tab_completion
        /\ ShiftTabTab(inp).tab_completion

\* the last of three or more candidates is selected: a TAB wraps to
\* candidate 0 and changes the line, and the SHIFT_TAB after it wraps back
C37_WrapAndBack ==
    /\ rl_pc = "read"
    /\ inp.tab_completion
    /\ Len(inp.tab_completions) >= 3
    /\ inp.tab_completion_cursor = Len(inp.tab_completions) - 1
    /\ Tabs(inp, 1).tab_completion_cursor = 0
    /\ Tabs(inp, 1).write_buffer # inp.write_buffer
    /\ TabShiftTab(inp).tab_completion_cursor = inp.tab_completion_cursor

\* C38: when a prompt starts on a terminal, after the history file was
\* loaded or a line was accepted, empty or not and whatever UP and DOWN came
\* before, the history cursor equals the history length, so that the first
\* UP recalls the most recent entry
C38_HistoryCursorAtEnd ==
    (rl_pc = "enter" /\ ts.in_is_terminal) =>
        inp.hist_cursor = Len(inp.hist_buffer)

----------------------------------------------------------------------------
(* Claims about main, the sourced files and the spawning of programs.      *)

\* C1: whenever drsh_spawn_process_and_wait is at the call of the OS spawn
\* primitive, for a line typed or sourced, the terminal state is TS_ORIG
C1_SpawnOnlyInOrig == spawn_pc = "spawn" => ts.state = TS_ORIG

\* a program of the configuration file is about to be spawned
C1_SpawnFromConfig ==
    /\ spawn_pc = "spawn"
    /\ main_pc = "config_run"
    /\ script.sourcing
    /\ ts.in_is_terminal

\* the line being processed is the one accepted interactively, not one of a
\* file it sources
Interactive == main_pc = "process" /\ ~script.sourcing

\* C2: an external command named by an interactively accepted line is
\* resolved in TS_RAW, drsh_ts_orig takes the terminal from TS_RAW to
\* TS_ORIG, the spawn and wait take it from TS_ORIG to TS_UNKNOWN and back
\* to main's loop, the next drsh_read_line takes it to TS_RAW or returns an
\* error without reading, and the terminal is only read in TS_RAW
C2_SpawnSequence ==
    /\ [](main_pc = "editing" => ts.state = TS_RAW)
    /\ [][/\ (process_spawn_resolved /\ Interactive) => ts.state = TS_RAW
          /\ (spawn_ts_orig /\ Interactive /\ spawn_pc' = "spawn")
             => (ts.state = TS_RAW /\ ts'.state = TS_ORIG)
          /\ (spawn_process_and_wait /\ Interactive)
             => /\ ts.state = TS_ORIG
                /\ ts'.state = TS_UNKNOWN
                /\ main_pc' = "read_line"
          /\ (main_pc = "read_line" /\ ts.state = TS_UNKNOWN)
             => \/ main_pc' = "editing" /\ ts'.state = TS_RAW
                \/ main_pc' = "hist_dump" /\ err' = EC_IO_ERROR]_vars

\* the program x was run from the line typed last, and drsh_read_line is
\* about to be called
C2_UnknownAfterSpawn ==
    /\ main_pc = "read_line"
    /\ ts.state = TS_UNKNOWN
    /\ ts.in_is_terminal
    /\ outbuf = <<120>>
    /\ inp.hist_buffer # <<>>
    /\ inp.hist_buffer[Len(inp.hist_buffer)] = <<120>>

\* C3: whenever main has returned, by any path, the terminal state is
\* TS_ORIG
C3_OrigAtReturn == main_pc = "returned" => ts.state = TS_ORIG

\* the texts of the entries, each followed by a line feed
RECURSIVE EachWithLF(_)
EachWithLF(entries) ==
    IF entries = <<>> THEN <<>>
    ELSE Head(entries) \o <<LF>> \o EachWithLF(Tail(entries))

\* the entries the lines of the history file make
LoadedEntries ==
    IF fs.hist_exists THEN HistLoadLoop(NewInput, fs.hist_file).hist_buffer
    ELSE <<>>

\* C4: once the interactive loop has ended and drsh_hist_dump has run, the
\* history file has grown by exactly the entries from hist_start on, in
\* order, each followed by a line feed; and the entries before hist_start
\* are those loaded from the file
C4_HistoryFlushed ==
    /\ (main_pc = "finish" /\ args.argc = 1)
       => fs.appended =
            EachWithLF(SubSeq(inp.hist_buffer, inp.hist_start + 1,
                              Len(inp.hist_buffer)))
    /\ (main_pc \in {"read_line", "editing", "process", "hist_dump"})
       => /\ inp.hist_start <= Len(inp.hist_buffer)
          /\ SubSeq(inp.hist_buffer, 1, inp.hist_start) = LoadedEntries

\* C5: a step of drsh_process_line on an accepted line leaves main's loop
\* only if it is the processing of exit and yields EC_EXIT; a program not
\* found, a built-in's argument error and a failed drsh_ts_orig or spawn
\* keep main in the loop, at the next drsh_read_line once the line is done
C5_OnlyExitEndsLoop ==
    [][main_pc = "process"
       => /\ main_pc' \in {"process", "read_line", "hist_dump"}
          /\ main_pc' = "hist_dump" <=> (process_exit /\ err' = EC_EXIT)
          /\ (\/ process_spawn_unresolved
              \/ process_builtin
              \/ spawn_ts_orig
              \/ spawn_process_and_wait) => main_pc' # "hist_dump"
          /\ (Interactive /\ ~process_exit /\ ~process_source
              /\ spawn_pc' = "none") => main_pc' = "read_line"]_vars

\* the line "y", which names no program, was processed and main is at its
\* next drsh_read_line
C5_LoopAfterNotFound ==
    /\ main_pc = "read_line"
    /\ outbuf = <<121>>
    /\ err = EC_OK
    /\ ts.state = TS_RAW

\* C25: a sourced file's lines are each run once, in order and with the
\* bytes read from the file: after a line of a sourced text was handed to
\* drsh_process_line, the text still to run is the rest of that text, after
\* the lines of the file the line sourced if it sourced one
C25_SourcedLinesKept ==
    [][(AtLine /\ script.sourcing /\ script'.sourcing)
          => \/ script'.txt = Rest.txt
             \/ \E file \in ScriptTexts :
                  script'.txt = CompleteLines(file) \o Rest.txt]_vars

\* main has left its loop or returned
PastLoop == main_pc \in {"hist_dump", "finish", "returned"}

\* C26: an exit in a sourced text ends every sourcing: no line of a sourced
\* text is left to run, main is past its loop or has returned, from there
\* on it only goes on to return, and whenever it returns after that it
\* returns 0
C26_ExitPropagates ==
    /\ [][process_exit => /\ script' = NoScript
                          /\ PastLoop'
                          /\ (main_pc' = "returned" => exit_code' = 0)]_vars
    /\ [][PastLoop => /\ PastLoop'
                      /\ ~AtLine'
                      /\ (main_pc' = "returned" => exit_code' = 0)]_vars
    /\ [](main_pc = "hist_dump" => ENABLED main_hist_dump)
    /\ [](main_pc = "finish" => ENABLED main_finish)

\* main returned 0 straight out of a sourced file that ran exit
C26_ExitFromSourcedFile ==
    /\ main_pc = "returned"
    /\ err = EC_EXIT
    /\ exit_code = 0
    /\ script = NoScript

\* C27: main returns 1 when a step of its initialization fails, and 0 only
\* otherwise
C27_InitFailureExitsOne ==
    [][exit_code' # exit_code
          => exit_code' = IF main_init_fails THEN 1 ELSE 0]_vars

\* the line holds no token: it is empty or made of blanks and line ends
NoTokens(line) == drsh_tokenize_line(line) = <<>>

\* C39: an accepted line that holds no token runs no built-in, resolves and
\* spawns no program, leaves the environment and the terminal state as they
\* were and writes nothing to the terminal
C39_BlankLineIsSilent ==
    (lib.fn = "drsh_process_line" /\ lib.pc = "returned"
     /\ NoTokens(lib.line))
    => /\ lib.ran \in {"line end", "spawn"}
       /\ ~lib.resolve
       /\ ~lib.spawn
       /\ lib.env = NewEnv
       /\ lib.ts.state = TS_RAW
       /\ lib.printed = <<>>

\* C40: every command line of a sourced file is run, the last one too where
\* no CR, LF or NUL follows it: when drsh_source_file finds no further line,
\* no command is left in the text
C40_LastLineRuns ==
    (/\ main_pc \in {"config_run", "argv_run", "process"}
     /\ spawn_pc = "none"
     /\ script.sourcing
     /\ drsh_rb_to_line(script.txt) = 0)
    => NoTokens(script.txt)

----------------------------------------------------------------------------
(* Claims about the library functions.                                     *)

\* n is an in-order subsequence of h: n is empty, or its first byte matches
\* some byte of h and the rest of n is a subsequence of what follows it;
\* icase compares the bytes after OR-ing 0x20
RECURSIVE IsSubsequence(_, _, _)
IsSubsequence(n, h, icase) ==
    \/ Len(n) = 0
    \/ /\ Len(h) # 0
       /\ \/ /\ IF icase THEN Or20(h[1]) = Or20(n[1]) ELSE h[1] = n[1]
             /\ IsSubsequence(Tail(n), Tail(h), icase)
          \/ IsSubsequence(n, Tail(h), icase)

\* C14: for all haystacks h and needles n, byte_expansion_distance(h, n) is
\* -1 unless n is an in-order byte subsequence of h and len(h) - len(n) when
\* it is, and byte_expansion_distance_icase does the same with the bytes
\* compared after OR-ing 0x20
C14_ExpansionDistance ==
    (lib.fn \in {"byte_expansion_distance", "byte_expansion_distance_icase"}
       /\ lib.returned) =>
        lib.ret =
          IF IsSubsequence(lib.needle, lib.haystack,
                           lib.fn = "byte_expansion_distance_icase")
          THEN Len(lib.haystack) - Len(lib.needle)
          ELSE -1

\* byte_expansion_distance_icase has found a needle of two bytes or more
\* that byte_expansion_distance does not find in the same haystack, with
\* bytes of the haystack skipped between the matches
C14_FoundIgnoringCase ==
    /\ lib.fn = "byte_expansion_distance_icase"
    /\ lib.returned
    /\ Len(lib.needle) >= 2
    /\ lib.ret >= 1
    /\ byte_expansion_distance(lib.haystack, lib.needle) = -1
    /\ ~IsSubsequence(lib.needle,
                      SubSeq(lib.haystack, 1, Len(lib.needle)), TRUE)

\* how many members of the sequence q satisfy Test
Count(q, Test(_)) == Cardinality({k \in 1..Len(q) : Test(q[k])})

\* C13: after the ranking and the tail drop of the first TAB an entry is in
\* the candidate list if and only if the typed basename is an in-order
\* subsequence of it, bytes compared after OR-ing 0x20: every entry whose
\* idistance is -1 is removed and no other entry is
C13_SubsequenceKept ==
    (lib.fn = "drsh_tab_completion" /\ lib.returned) =>
        /\ \A k \in 1..Len(lib.listed) :
             Count(lib.words, LAMBDA w : w.a = lib.listed[k]) =
               IF IsSubsequence(lib.basename, lib.listed[k], TRUE)
               THEN Count(lib.listed, LAMBDA a : a = lib.listed[k])
               ELSE 0
        /\ \A k \in 1..Len(lib.words) : lib.words[k].idistance # -1
        /\ Len(lib.words) =
             Count(RankWords(lib.listed, lib.basename),
                   LAMBDA w : w.idistance # -1)

\* of four candidates two were dropped, and one was kept that holds the
\* basename only with a byte skipped or in another case
C13_KeptBySkipping ==
    /\ lib.fn = "drsh_tab_completion"
    /\ lib.returned
    /\ Len(lib.basename) = 2
    /\ Len(lib.listed) = 4
    /\ Len(lib.words) = 2
    /\ lib.words[1].a = lib.basename
    /\ lib.words[2].prefix_match = 0
    /\ lib.words[2].idistance # -1

\* C15: for any sequence of drsh_at_atomize calls on one table, growth and
\* the recursive atomization of folded forms included, two calls return the
\* same atom if and only if their byte strings are equal
C15_AtomUniqueness ==
    lib.fn = "drsh_at_atomize" =>
        \A p, q \in lib.calls : (p.atom = q.atom) <=> (p.txt = q.txt)

\* the table has grown twice, texts that fold to one form were atomized,
\* and a text was found again behind another atom of the same slot
C15_GrownTwice ==
    /\ lib.fn = "drsh_at_atomize"
    /\ lib.at.cap = 16
    /\ lib.at.count = 7
    /\ Cardinality(lib.calls) = 7
    /\ \E k \in 1..(2 * lib.at.cap - 1) :
         lib.at.idxes[k] # 0 /\ lib.at.idxes[k + 1] # 0

\* an ASCII letter: A-Z or a-z
IsLetter(c) == (c >= 65 /\ c <= 90) \/ (c >= 97 /\ c <= 122)

\* a and b are equal up to ASCII letter case: where they differ, both bytes
\* are the same letter in its two cases
EqualUpToCase(a, b) ==
    /\ Len(a) = Len(b)
    /\ \A j \in 1..Len(a) :
         \/ a[j] = b[j]
         \/ IsLetter(a[j]) /\ IsLetter(b[j]) /\ Or20(a[j]) = Or20(b[j])

\* C16: for all byte strings a and b, atomize(a).ifold and atomize(b).ifold
\* are the same atom if and only if a and b differ only in the case of
\* bytes A-Z / a-z
C16_CaseFolding ==
    lib.fn = "drsh_at_atomize" =>
        \A p, q \in lib.calls :
            (lib.at.atoms[p.atom].iatom = lib.at.atoms[q.atom].iatom)
                <=> EqualUpToCase(p.txt, q.txt)

\* C17: after any sequence of drsh_env_set_env calls, with growth and with
\* the reordering of drsh_env_sort_env / drsh_env_get_envp between them,
\* drsh_env_get_env(k) returns the value of the most recent set of k and
\* NULL for a key never set, on the case-sensitive and on the
\* case-insensitive environment (where k is a key up to case)
C17_EnvRoundTrip ==
    (lib.fn = "drsh_env" /\ lib.got.key # NULL) =>
        lib.got.ret = lib.last[LKey(lib.env, lib.got.key)]

\* the places of the pairs of t whose key has the iatom of key
Stored(t, key) == {i \in 1..t.count : iatom(t.pairs[i].key) = iatom(key)}

\* what the claim says of a set on the case-insensitive environment that
\* finds a spelling of its key stored
RespelledAsClaimed(key, value) ==
    /\ lib'.env.count = lib.env.count
    /\ \A i \in Stored(lib'.env, key) :
         lib'.env.pairs[i] = [key |-> key, value |-> value]
    /\ \A k \in EnvKeys :
         iatom(k) = iatom(key) =>
             EnvGet(lib'.env, lib.seed, k, EnvValues) = {value}

\* C18: on the case-insensitive environment no two stored entries have keys
\* with equal ifold atoms: a set of a key that differs from a stored key
\* only in case leaves the entry count unchanged, replaces the stored key
\* atom with the new spelling and replaces the value, and a get with any
\* spelling returns that value
C18_CaseInsensitiveKeys ==
    /\ []((lib.fn = "drsh_env" /\ lib.env.case_insensitive) =>
            \A i, j \in 1..lib.env.count :
                iatom(lib.env.pairs[i].key) = iatom(lib.env.pairs[j].key)
                    => i = j)
    /\ [][\A key \in EnvKeys, value \in EnvValues :
            (/\ lib.fn = "drsh_env"
             /\ lib.env.case_insensitive
             /\ Stored(lib.env, key) # {}
             /\ call_drsh_env_set_env(key, value))
                => RespelledAsClaimed(key, value)]_vars

\* the grown and sorted case-insensitive environment holds the spelling p,
\* set last, and its value was got under the spelling P
C18_GotUnderOtherSpelling ==
    /\ lib.fn = "drsh_env"
    /\ lib.env.case_insensitive
    /\ lib.env.cap = 64
    /\ lib.env.sorted
    /\ \E i \in 1..lib.env.count :
         lib.env.pairs[i] = [key |-> <<112>>, value |-> <<50>>]
    /\ lib.got = [key |-> <<80>>, ret |-> <<50>>]


\* the fields of txt that sep separates, left to right, the empty ones
\* included: field n begins after the separator number n - 1
FieldStarts(txt, sep) == {1} \cup {i + 1 : i \in {j \in 1..Len(txt) : txt[j] = sep}}

FieldFrom(txt, sep, a) ==
    [k \in 1..Cardinality({b \in a..Len(txt) :
                              \A j \in a..b : txt[j] # sep}) |->
        txt[a + k - 1]]

Fields(txt, sep) ==
    [n \in 1..Cardinality(FieldStarts(txt, sep)) |->
        FieldFrom(txt, sep,
            CHOOSE a \in FieldStarts(txt, sep) :
                Cardinality({b \in FieldStarts(txt, sep) : b < a}) = n - 1)]

\* the concatenation of the sequences of a sequence
RECURSIVE Flatten(_)
Flatten(qq) == IF qq = <<>> THEN <<>> ELSE Head(qq) \o Flatten(Tail(qq))

NonEmpty(q) == q # <<>>

\* the directories searched for a program without a separator: the
\* non-empty entries of PATH and, on the DOS family, the working directory
SearchedDirectories(c) ==
    IF c.path = NULL
    THEN <<>>
    ELSE SelectSeq(Fields(c.path, PathSeparator(c.windows_style)), NonEmpty)
         \o (IF c.windows_style THEN <<c.pwd>> ELSE <<>>)

\* the suffixes of PATHEXT, in its order
Suffixes(c) ==
    IF c.pathexts = NULL \/ c.pathexts = <<>>
    THEN <<PathExts(NULL)>>
    ELSE Fields(c.pathexts, SEMICOLON)

\* the program name already ends with one of the suffixes, in any case
EndsWithSuffix(c) ==
    \E k \in 1..Len(Suffixes(c)) :
        /\ Len(Suffixes(c)[k]) <= Len(c.program)
        /\ EqualUpToCase(Suffixes(c)[k],
               SubSeq(c.program,
                      Len(c.program) - Len(Suffixes(c)[k]) + 1,
                      Len(c.program)))

\* the candidates probed in directory number d, in the order of probing
CandidatesIn(c, d) ==
    IF c.windows_style /\ ~EndsWithSuffix(c)
    THEN [k \in 1..Len(Suffixes(c)) |->
             SearchedDirectories(c)[d] \o <<SLASH>> \o c.program
                 \o Suffixes(c)[k]]
    ELSE <<SearchedDirectories(c)[d] \o <<SLASH>> \o c.program>>

\* all the candidates probed, in the order of probing
Candidates(c) ==
    Flatten([d \in 1..Len(SearchedDirectories(c)) |-> CandidatesIn(c, d)])

\* the call returned what the probing of cands, in order, gives
ResolvedAmong(c, cands) ==
    IF \A k \in 1..Len(cands) : cands[k] \notin c.files
    THEN c.err = EC_NOT_FOUND
    ELSE /\ c.err = EC_OK
         /\ \E k \in 1..Len(cands) :
              /\ cands[k] \in c.files
              /\ \A j \in 1..(k - 1) : cands[j] \notin c.files
              /\ c.tmp = cands[k] \o <<0>>

\* C19: for a program name without a path separator the call returns the
\* first candidate that exists, the candidates being ordered by the
\* non-empty directories of PATH left to right (then, on the DOS family, the
\* working directory) and within a directory by the suffixes of PATHEXT; it
\* returns EC_NOT_FOUND exactly when none of them exists
C19_FirstOnPath ==
    (lib.returned /\ ~HasDir(lib.program, lib.windows_style))
        => ResolvedAmong(lib, Candidates(lib))

\* PATH is "b;c" and PATHEXT ".f;.e" on the DOS family, only c/x.e and
\* /w/x.e exist, and x resolved to c/x.e, the fourth candidate
C19_SecondDirectorySecondSuffix ==
    /\ lib.returned
    /\ lib.windows_style
    /\ lib.program = <<120>>
    /\ lib.path = <<98, SEMICOLON, 99>>
    /\ lib.pathexts = <<DOT, 102, SEMICOLON, DOT, 101>>
    /\ lib.files = {<<99, SLASH, 120, DOT, 101>>,
                    WorkDir \o <<SLASH, 120, DOT, 101>>}
    /\ lib.err = EC_OK
    /\ lib.tmp = <<99, SLASH, 120, DOT, 101, 0>>


\* the byte at place i is escaped: a backslash that is not itself escaped
\* precedes it
RECURSIVE Escaped(_, _)
Escaped(txt, i) ==
    /\ i > 1
    /\ txt[i - 1] = BACKSLASH
    /\ ~Escaped(txt, i - 1)

\* the open quote after byte c, escaped or not, when q was open before it
\* (0: none)
QuoteStep(q, c, esc) ==
    IF esc THEN q
    ELSE IF q = 0 THEN (IF c \in Quotes THEN c ELSE 0)
    ELSE IF c = q THEN 0
    ELSE q

\* the quote that is open after the first i bytes of txt (0: none)
RECURSIVE QuoteAfter(_, _)
QuoteAfter(txt, i) ==
    IF i = 0
    THEN 0
    ELSE QuoteStep(QuoteAfter(txt, i - 1), txt[i], Escaped(txt, i))

\* the byte at place i is a whitespace byte outside quotes and not escaped
Separates(txt, i) ==
    /\ txt[i] \in TokenBreaks
    /\ QuoteAfter(txt, i - 1) = 0
    /\ ~Escaped(txt, i)

\* the places where a run of bytes that do not separate begins
RunStarts(txt) ==
    {a \in 1..Len(txt) :
        ~Separates(txt, a) /\ (a = 1 \/ Separates(txt, a - 1))}

\* the run of bytes that do not separate, from place a on
RunFrom(txt, a) ==
    [k \in 1..Cardinality({b \in a..Len(txt) :
                              \A j \in a..b : ~Separates(txt, j)}) |->
        txt[a + k - 1]]

\* the tokens of txt when exactly the unquoted, unescaped whitespace bytes
\* separate them
SeparatedTokens(txt) ==
    [n \in 1..Cardinality(RunStarts(txt)) |->
        RunFrom(txt,
            CHOOSE a \in RunStarts(txt) :
                Cardinality({b \in RunStarts(txt) : b < a}) = n - 1)]

\* C20: drsh_tokenize_line ends a token at a whitespace byte if and only if
\* the byte is outside quotes and not escaped by a preceding backslash, so
\* the tokens are the runs between the unquoted, unescaped whitespace bytes
C20_WhitespaceSeparates ==
    lib.returned => lib.tokens = SeparatedTokens(lib.line)

\* no token of the line begins with a backslash and none holds a NUL
PlainLine(txt) ==
    /\ \A a \in RunStarts(txt) : txt[a] # BACKSLASH
    /\ \A i \in 1..Len(txt) : txt[i] # 0

\* on such lines the tokens are the runs between the unquoted, unescaped
\* whitespace bytes
TokensOfPlainLine ==
    (lib.returned /\ PlainLine(lib.line))
        => lib.tokens = SeparatedTokens(lib.line)


\* the token of the name between single quotes after a '$'
SingleQuoted(name) == <<39, DOLLAR>> \o name \o <<39>>

\* C21: inside single quotes no variable is expanded: the token '$X', X set
\* or not, canonicalizes to the bytes $X
C21_NoExpansionInSingleQuotes ==
    (lib.returned /\ lib.tok = SingleQuoted(<<88>>))
        => lib.atom = <<DOLLAR, 88>>

\* C22: a '$' after a backslash is literal: the token "\$X" canonicalizes
\* to exactly the bytes $X, whatever the value of X
C22_EscapedDollarLiteral ==
    (lib.returned /\ lib.tok = <<34, BACKSLASH, DOLLAR, 88, 34>>)
        => lib.atom = <<DOLLAR, 88>>


\* the longest run of name bytes that t begins with
RECURSIVE NameRun(_)
NameRun(t) ==
    IF t # <<>> /\ IsNameByte(Head(t))
    THEN <<Head(t)>> \o NameRun(Tail(t))
    ELSE <<>>

\* the value a name has in the environment e, the empty string when it is
\* not set
ValueOf(e, name) ==
    IF drsh_env_get_env(e, name) = NULL
    THEN <<>>
    ELSE drsh_env_get_env(e, name)

\* t with each $NAME replaced by the value of NAME in e
RECURSIVE WithValues(_, _)
WithValues(t, e) ==
    IF t = <<>>
    THEN <<>>
    ELSE IF Head(t) = DOLLAR
    THEN ValueOf(e, NameRun(Tail(t)))
             \o WithValues(SubSeq(t, 2 + Len(NameRun(Tail(t))), Len(t)), e)
    ELSE <<Head(t)>> \o WithValues(Tail(t), e)

\* t holds only '$' and name bytes, and a name follows each '$'
NamesOnly(t) ==
    \A j \in 1..Len(t) :
        /\ t[j] = DOLLAR \/ IsNameByte(t[j])
        /\ t[j] = DOLLAR => (j < Len(t) /\ IsNameByte(t[j + 1]))

\* the token without the double quotes around it, if it has them
Unquoted(tok) ==
    IF Len(tok) >= 2 /\ tok[1] = 34 /\ tok[Len(tok)] = 34
    THEN SubSeq(tok, 2, Len(tok) - 1)
    ELSE tok

\* C23: in an unquoted or double-quoted token each $NAME, NAME being the
\* longest run of name bytes, is replaced by the value NAME has in the
\* environment when the token is canonicalized, after the set lines before
\* it, and by nothing when NAME is not set
C23_DollarExpansion ==
    (lib.returned /\ NamesOnly(Unquoted(lib.tok)))
        => lib.atom = WithValues(Unquoted(lib.tok), lib.env)

\* "$X" was canonicalized to v after a line set X to v
C23_ExpandedAfterSet ==
    /\ lib.returned
    /\ lib.tok = <<34, DOLLAR, 88, 34>>
    /\ drsh_env_get_env(lib.env, <<88>>) = <<118>>
    /\ lib.atom = <<118>>

\* the token is a '~' alone or before a '/', with only '/' and X after it
TildeToken(tok) ==
    /\ Len(tok) # 0
    /\ tok[1] = TILDE
    /\ Len(tok) > 1 => tok[2] = SLASH
    /\ \A j \in 2..Len(tok) : tok[j] \in {SLASH, 88}

\* the token with its leading '~' replaced by the value of HOME in e, or as
\* it is when HOME is not set
WithHome(tok, e) ==
    IF drsh_env_get_env(e, ATOM_HOME) = NULL
    THEN tok
    ELSE drsh_env_get_env(e, ATOM_HOME) \o Tail(tok)

\* C24: a leading '~' before the end of the token or a separator is replaced
\* by the value HOME has in the environment when the token is
\* canonicalized, also after a line set HOME; with HOME not set the '~'
\* stays
C24_TildeIsCurrentHome ==
    (lib.returned /\ TildeToken(lib.tok))
        => lib.atom = WithHome(lib.tok, lib.env)

\* as long as no line has changed HOME the '~' is replaced by its value
TildeIsStartingHome ==
    (lib.returned /\ TildeToken(lib.tok)
         /\ drsh_env_get_env(lib.env, ATOM_HOME) = lib.env.home)
        => lib.atom = WithHome(lib.tok, lib.env)


\* C28: the pwd built-in prints the value of PWD, the directory the last
\* cd refreshed it to, and CR LF, on both families
C28_PwdPrintsPWD ==
    lib.returned
        => lib.printed = drsh_env_get_env(lib.env, ATOM_PWD) \o <<CR, LF>>

\* the working directory is HOME, or begins with HOME and a separator
AtOrBelowHome(home, wd, windows) ==
    /\ home # NULL
    /\ Len(wd) >= Len(home)
    /\ SubSeq(wd, 1, Len(home)) = home
    /\ \/ Len(wd) = Len(home)
       \/ wd[Len(home) + 1] = SLASH
       \/ windows /\ wd[Len(home) + 1] = BACKSLASH

\* C29: the displayed cwd begins with '~' in place of the HOME bytes if and
\* only if the working directory is HOME or the byte after the HOME prefix
\* is a separator
C29_TildeAtHomeBoundary ==
    (lib.cwd # <<>> /\ lib.cwd[1] = TILDE)
        <=> AtOrBelowHome(lib.env.home, lib.wd, IS_WINDOWS)


\* C31: after the ranking of the first TAB the candidate list is not empty
\* and candidate 0 is the basename the user typed, whatever the directory
\* lists and whatever the basename is
C31_TypedBasenameFirst ==
    (lib.fn = "drsh_tab_completion" /\ lib.returned) =>
        /\ lib.words # <<>>
        /\ lib.words[1].a = lib.basename

\* the directory lists an entry spelled as the basename and another that the
\* basename begins, and both are kept behind candidate 0
C31_TypedAmongEntries ==
    /\ lib.fn = "drsh_tab_completion"
    /\ lib.returned
    /\ lib.basename = <<98>>
    /\ Len(lib.words) = 4
    /\ lib.words[2].a = lib.basename
    /\ lib.words[3].a = <<98, 97>>

\* a is not greater than b as size_t values, -1 standing for (size_t)-1
SizeAtMost(a, b) == b = -1 \/ (a # -1 /\ a <= b)

\* the name begins with '.'
IsDotfile(a) == Len(a) # 0 /\ a[1] = DOT

\* a is not greater than b byte by byte: a begins b, or a has the smaller
\* byte where they first differ
BytewiseAtMost(a, b) ==
    \/ Len(a) <= Len(b) /\ SubSeq(b, 1, Len(a)) = a
    \/ \E k \in 1..Len(a) :
         /\ k <= Len(b)
         /\ SubSeq(a, 1, k - 1) = SubSeq(b, 1, k - 1)
         /\ a[k] < b[k]

\* the candidate l is not greater than r in the order of the claim
NotGreater(l, r) ==
    IF l.prefix_match # r.prefix_match THEN l.prefix_match > r.prefix_match
    ELSE IF l.iprefix_match # r.iprefix_match
         THEN l.iprefix_match > r.iprefix_match
    ELSE IF l.distance # r.distance THEN SizeAtMost(l.distance, r.distance)
    ELSE IF l.idistance # r.idistance
         THEN SizeAtMost(l.idistance, r.idistance)
    ELSE IF IsDotfile(l.a) # IsDotfile(r.a) THEN ~IsDotfile(l.a)
    ELSE BytewiseAtMost(l.a, r.a)

\* C32: the candidate list of the first TAB is ordered by prefix_match
\* descending, iprefix_match descending, distance ascending, idistance
\* ascending, non-dotfiles before dotfiles and then bytewise ascending: of
\* two adjacent candidates the earlier is not greater than the later
C32_CandidateOrder ==
    (lib.fn = "drsh_tab_completion" /\ lib.returned) =>
        \A k \in 1..(Len(lib.words) - 1) :
            NotGreater(lib.words[k], lib.words[k + 1])

\* "ab" was typed: "Ab" follows it for its prefix without case, and of
\* "acb" and ".ab", equal in every score, the dotfile comes last
C32_DotfileLast ==
    /\ lib.fn = "drsh_tab_completion"
    /\ lib.returned
    /\ lib.basename = <<97, 98>>
    /\ Len(lib.words) = 4
    /\ lib.words[2].a = <<65, 98>>
    /\ lib.words[3].a = <<97, 99, 98>>
    /\ lib.words[4].a = <<DOT, 97, 98>>
============================================================================
